---- MODULE Spec2Model ----
(***************************************************************************)
(* A model of the opus-rs binding layer (src/src/lib.rs): the length       *)
(* guard, the error translation macros, the typed control accessors, the   *)
(* constructors, the packet queries and the repacketizer session.          *)
(*                                                                         *)
(* The native engine is outside the repository.  It is modelled as an      *)
(* environment: every native call answers with a status code drawn from    *)
(* NativeCodes, and a control "get" writes the raw integer the native      *)
(* field holds.                                                            *)
(***************************************************************************)
EXTENDS Integers, Sequences, FiniteSets, TLC

\* ------------------------------------------------------------------------
\* Native constants referenced by the binding (values of the ffi crate).

OPUS_OK == 0
OPUS_BAD_ARG == -1
OPUS_BUFFER_TOO_SMALL == -2
OPUS_INTERNAL_ERROR == -3
OPUS_INVALID_PACKET == -4
OPUS_UNIMPLEMENTED == -5
OPUS_INVALID_STATE == -6
OPUS_ALLOC_FAIL == -7

OPUS_AUTO == -1000
OPUS_BITRATE_MAX == -1

OPUS_APPLICATION_VOIP == 2048
OPUS_APPLICATION_AUDIO == 2049
OPUS_APPLICATION_RESTRICTED_LOWDELAY == 2051

OPUS_SIGNAL_VOICE == 3001
OPUS_SIGNAL_MUSIC == 3002

OPUS_BANDWIDTH_NARROWBAND == 1101
OPUS_BANDWIDTH_MEDIUMBAND == 1102
OPUS_BANDWIDTH_WIDEBAND == 1103
OPUS_BANDWIDTH_SUPERWIDEBAND == 1104
OPUS_BANDWIDTH_FULLBAND == 1105

OPUS_FRAMESIZE_ARG == 5000
OPUS_FRAMESIZE_2_5_MS == 5001
OPUS_FRAMESIZE_5_MS == 5002
OPUS_FRAMESIZE_10_MS == 5003
OPUS_FRAMESIZE_20_MS == 5004
OPUS_FRAMESIZE_40_MS == 5005
OPUS_FRAMESIZE_60_MS == 5006
OPUS_FRAMESIZE_80_MS == 5007
OPUS_FRAMESIZE_100_MS == 5008
OPUS_FRAMESIZE_120_MS == 5009

\* ------------------------------------------------------------------------
\* Values and results.

\* A typed value of the binding: a tag and, where the variant carries one,
\* an integer.
TV(t, n) == [t |-> t, n |-> n]
Unit == TV("unit", 0)

\* Result<T>: Ok(value) or Err(Error { function, code }); "Panic" is a
\* panic unwinding out of the operation.
Ok(v) == [tag |-> "Ok", val |-> v, function |-> "", code |-> "none"]
Err(f, c) == [tag |-> "Err", val |-> Unit, function |-> f, code |-> c]
Panic == [tag |-> "Panic", val |-> Unit, function |-> "", code |-> "none"]

\* The enum's variants and their discriminants (`#[repr(i32)]`, `k as i32`).
ErrorCodes ==
    {"BadArg", "BufferTooSmall", "InternalError", "InvalidPacket", "Unimplemented",
     "InvalidState", "AllocFail", "Unknown"}
ErrorCode_raw(k) ==
    CASE k = "BadArg" -> OPUS_BAD_ARG
      [] k = "BufferTooSmall" -> OPUS_BUFFER_TOO_SMALL
      [] k = "InternalError" -> OPUS_INTERNAL_ERROR
      [] k = "InvalidPacket" -> OPUS_INVALID_PACKET
      [] k = "Unimplemented" -> OPUS_UNIMPLEMENTED
      [] k = "InvalidState" -> OPUS_INVALID_STATE
      [] k = "AllocFail" -> OPUS_ALLOC_FAIL
      [] k = "Unknown" -> -8

\* A classification without the last arm before the catch-all.
ErrorCode_from_int_six_arms(value) ==
    CASE value = OPUS_BAD_ARG -> "BadArg"
      [] value = OPUS_BUFFER_TOO_SMALL -> "BufferTooSmall"
      [] value = OPUS_INTERNAL_ERROR -> "InternalError"
      [] value = OPUS_INVALID_PACKET -> "InvalidPacket"
      [] value = OPUS_UNIMPLEMENTED -> "Unimplemented"
      [] value = OPUS_INVALID_STATE -> "InvalidState"
      [] OTHER -> "Unknown"

\* ErrorCode::from_int
ErrorCode_from_int(value) ==
    CASE value = OPUS_BAD_ARG -> "BadArg"
      [] value = OPUS_BUFFER_TOO_SMALL -> "BufferTooSmall"
      [] value = OPUS_INTERNAL_ERROR -> "InternalError"
      [] value = OPUS_INVALID_PACKET -> "InvalidPacket"
      [] value = OPUS_UNIMPLEMENTED -> "Unimplemented"
      [] value = OPUS_INVALID_STATE -> "InvalidState"
      [] value = OPUS_ALLOC_FAIL -> "AllocFail"
      [] OTHER -> "Unknown"

\* Error::bad_arg
Error_bad_arg(what) == Err(what, "BadArg")

\* Error::from_code
Error_from_code(what, code) == Err(what, ErrorCode_from_int(code))

\* ------------------------------------------------------------------------
\* Enumerations: raw encodings and decode functions.

\* Application::from_raw
Application_from_raw(raw, what) ==
    CASE raw = OPUS_APPLICATION_VOIP -> Ok(TV("Voip", 0))
      [] raw = OPUS_APPLICATION_AUDIO -> Ok(TV("Audio", 0))
      [] raw = OPUS_APPLICATION_RESTRICTED_LOWDELAY -> Ok(TV("LowDelay", 0))
      [] OTHER -> Error_bad_arg(what)

\* `application as i32`: the enum's discriminant
Application_raw(a) ==
    CASE a.t = "Voip" -> OPUS_APPLICATION_VOIP
      [] a.t = "Audio" -> OPUS_APPLICATION_AUDIO
      [] a.t = "LowDelay" -> OPUS_APPLICATION_RESTRICTED_LOWDELAY

\* Option<Bandwidth>
Some(v) == [some |-> TRUE, v |-> v]
None == [some |-> FALSE, v |-> Unit]

\* Bandwidth::from_int
Bandwidth_from_int(value) ==
    CASE value = OPUS_AUTO -> Some(TV("Auto", 0))
      [] value = OPUS_BANDWIDTH_NARROWBAND -> Some(TV("Narrowband", 0))
      [] value = OPUS_BANDWIDTH_MEDIUMBAND -> Some(TV("Mediumband", 0))
      [] value = OPUS_BANDWIDTH_WIDEBAND -> Some(TV("Wideband", 0))
      [] value = OPUS_BANDWIDTH_SUPERWIDEBAND -> Some(TV("Superwideband", 0))
      [] value = OPUS_BANDWIDTH_FULLBAND -> Some(TV("Fullband", 0))
      [] OTHER -> None

\* A decode that turns an unknown raw value into the default variant.
Bandwidth_decode_lenient(value, what) ==
    IF Bandwidth_from_int(value).some
    THEN Ok(Bandwidth_from_int(value).v)
    ELSE Ok(TV("Auto", 0))

\* Bandwidth::decode
Bandwidth_decode(value, what) ==
    IF Bandwidth_from_int(value).some
    THEN Ok(Bandwidth_from_int(value).v)
    ELSE Error_bad_arg(what)

\* Bandwidth::raw (`self as i32`)
Bandwidth_raw(b) ==
    CASE b.t = "Auto" -> OPUS_AUTO
      [] b.t = "Narrowband" -> OPUS_BANDWIDTH_NARROWBAND
      [] b.t = "Mediumband" -> OPUS_BANDWIDTH_MEDIUMBAND
      [] b.t = "Wideband" -> OPUS_BANDWIDTH_WIDEBAND
      [] b.t = "Superwideband" -> OPUS_BANDWIDTH_SUPERWIDEBAND
      [] b.t = "Fullband" -> OPUS_BANDWIDTH_FULLBAND

\* A decoding with no sentinel arms.
Bitrate_from_raw_bits_only(raw) == Ok(TV("Bits", raw))

\* Bitrate::from_raw
Bitrate_from_raw(raw) ==
    Ok(CASE raw = OPUS_AUTO -> TV("Auto", 0)
         [] raw = OPUS_BITRATE_MAX -> TV("Max", 0)
         [] OTHER -> TV("Bits", raw))

\* Bitrate::raw
Bitrate_raw(b) ==
    CASE b.t = "Auto" -> OPUS_AUTO
      [] b.t = "Max" -> OPUS_BITRATE_MAX
      [] b.t = "Bits" -> b.n

\* Signal::from_raw
Signal_from_raw(raw, what) ==
    CASE raw = OPUS_AUTO -> Ok(TV("Auto", 0))
      [] raw = OPUS_SIGNAL_VOICE -> Ok(TV("Voice", 0))
      [] raw = OPUS_SIGNAL_MUSIC -> Ok(TV("Music", 0))
      [] OTHER -> Error_bad_arg(what)

\* Signal::raw (`self as i32`)
Signal_raw(s) ==
    CASE s.t = "Auto" -> OPUS_AUTO
      [] s.t = "Voice" -> OPUS_SIGNAL_VOICE
      [] s.t = "Music" -> OPUS_SIGNAL_MUSIC

\* FrameSize::from_raw
FrameSize_from_raw(raw, what) ==
    CASE raw = OPUS_FRAMESIZE_ARG -> Ok(TV("Arg", 0))
      [] raw = OPUS_FRAMESIZE_2_5_MS -> Ok(TV("Ms2_5", 0))
      [] raw = OPUS_FRAMESIZE_5_MS -> Ok(TV("Ms5", 0))
      [] raw = OPUS_FRAMESIZE_10_MS -> Ok(TV("Ms10", 0))
      [] raw = OPUS_FRAMESIZE_20_MS -> Ok(TV("Ms20", 0))
      [] raw = OPUS_FRAMESIZE_40_MS -> Ok(TV("Ms40", 0))
      [] raw = OPUS_FRAMESIZE_60_MS -> Ok(TV("Ms60", 0))
      [] raw = OPUS_FRAMESIZE_80_MS -> Ok(TV("Ms80", 0))
      [] raw = OPUS_FRAMESIZE_100_MS -> Ok(TV("Ms100", 0))
      [] raw = OPUS_FRAMESIZE_120_MS -> Ok(TV("Ms120", 0))
      [] OTHER -> Error_bad_arg(what)

\* FrameSize::raw (`self as i32`)
FrameSize_raw(f) ==
    CASE f.t = "Arg" -> OPUS_FRAMESIZE_ARG
      [] f.t = "Ms2_5" -> OPUS_FRAMESIZE_2_5_MS
      [] f.t = "Ms5" -> OPUS_FRAMESIZE_5_MS
      [] f.t = "Ms10" -> OPUS_FRAMESIZE_10_MS
      [] f.t = "Ms20" -> OPUS_FRAMESIZE_20_MS
      [] f.t = "Ms40" -> OPUS_FRAMESIZE_40_MS
      [] f.t = "Ms60" -> OPUS_FRAMESIZE_60_MS
      [] f.t = "Ms80" -> OPUS_FRAMESIZE_80_MS
      [] f.t = "Ms100" -> OPUS_FRAMESIZE_100_MS
      [] f.t = "Ms120" -> OPUS_FRAMESIZE_120_MS

\* The inverted mapping of an early revision (Stereo = 1, Mono = 2).
force_channels_raw_inverted(value) ==
    CASE value.t = "None" -> OPUS_AUTO
      [] value.t = "Mono" -> 2
      [] value.t = "Stereo" -> 1

\* set_force_channels: the match that encodes Option<Channels>
force_channels_raw(value) ==
    CASE value.t = "None" -> OPUS_AUTO
      [] value.t = "Mono" -> 1
      [] value.t = "Stereo" -> 2

\* get_force_channels: the match that decodes the raw value
force_channels_from_raw(value, what) ==
    CASE value = OPUS_AUTO -> Ok(TV("None", 0))
      [] value = 1 -> Ok(TV("Mono", 0))
      [] value = 2 -> Ok(TV("Stereo", 0))
      [] OTHER -> Error_bad_arg(what)

\* `if flag { 1 } else { 0 }` and `value != 0`
bool_raw(b) == IF b.t = "true" THEN 1 ELSE 0
bool_from_raw(value) == Ok(IF value # 0 THEN TV("true", 0) ELSE TV("false", 0))

\* ------------------------------------------------------------------------
\* State.

VARIABLES
    kind,     \* control channel: the handle kind under test
    param,    \* control channel: the parameter under test
    stored,   \* control channel: the raw integer the native field holds
    lastOp,   \* the last wrapper operation: its argument, the native calls
              \* it made (in order) and what it returned
    clock,    \* repacketizer: the caller's position in time; a lifetime is
              \* the time it ends at
    bufs,     \* repacketizer: the caller's packet buffers
    rpUntil,  \* repacketizer: end of the exclusive borrow of the Repacketizer
    sessions, \* repacketizer: the live RepacketizerState values
    nat,      \* repacketizer: the native OpusRepacketizer's state
    heap      \* handles: the native instances, who holds each, the native
              \* destroy calls made on it and the calls in progress on it

ctlVars == <<kind, param, stored>>
rpVars == <<clock, bufs, rpUntil, sessions, nat>>
lifeVars == <<heap>>
vars == <<kind, param, stored, lastOp, clock, bufs, rpUntil, sessions, nat, heap>>

\* A native call as the operation issued it: the function and the status
\* code (or payload) it answered.
Call(f, code) == [fn |-> f, code |-> code]

\* What an operation remembers of the operation before it.
Summary(op) ==
    [op |-> op.op, ok |-> op.result.tag = "Ok",
     arg |-> IF op.op = "set" /\ op.result.tag = "Ok" THEN op.arg ELSE Unit]

NoPrev == [op |-> "none", ok |-> TRUE, arg |-> Unit]

\* The record of one operation.  `sizes` are the platform-width sizes the
\* caller's buffers and index arguments had, `lens` the native integers the
\* native call received for them.
Op(name, arg, raw, calls, result, prev) ==
    [op |-> name, arg |-> arg, raw |-> raw, calls |-> calls, result |-> result,
     prev |-> prev, sizes |-> <<>>, lens |-> <<>>,
     emitted |-> [cfg |-> "", frames |-> <<>>]]

NoOp == Op("none", Unit, 0, <<>>, Ok(Unit), NoPrev)

\* The status codes the native side may answer: the seven documented
\* errors, one undocumented negative code, OPUS_OK and a positive value.
NativeCodes == (OPUS_ALLOC_FAIL - 1) .. 1

\* The answers drawn for a control call: an undocumented negative code, the
\* two errors a control request is documented to give, OPUS_OK and a
\* positive value.
CtlCodes == {OPUS_ALLOC_FAIL - 1, OPUS_UNIMPLEMENTED, OPUS_BAD_ARG, OPUS_OK, 1}

\* ------------------------------------------------------------------------
\* Repacketizer data.

\* A frame of a packet: its payload's identity and its size in bytes.
Frame(d) == [d |-> d, sz |-> 2]
ShortFrame(d) == [d |-> d, sz |-> 1]

\* The packets a caller's buffer may hold.  `cfg` stands for the TOC byte's
\* configuration bits: c40 packets carry 40 ms frames, c60 packets 60 ms
\* frames.  The empty packet is a zero-length slice.
PacketA == [cfg |-> "c40", frames |-> <<Frame("a")>>]
PacketB == [cfg |-> "c40", frames |-> <<Frame("b"), ShortFrame("c")>>]
PacketC == [cfg |-> "c60", frames |-> <<Frame("d")>>]
EmptyPacket == [cfg |-> "", frames |-> <<>>]
Packets == {PacketA, PacketB, PacketC, EmptyPacket}
WritablePackets == {PacketA, PacketB, PacketC}

\* The caller's buffers and the span of time the model follows.
NumBufs == 2
Bufs == 1 .. NumBufs
MaxTime == 2

\* opus_repacketizer_init: no frames accumulated.
NativeInit == [cfg |-> "", frames |-> <<>>]

\* Where a buffer's bytes came from: written by the caller, copied from
\* what combine wrote, or copied from what out_range(begin, end) wrote on a
\* session holding packet `of` alone.
Origin(k, of, begin, end) == [kind |-> k, of |-> of, begin |-> begin, end |-> end]
ByCaller == Origin("caller", EmptyPacket, 0, 0)

\* A caller's buffer holding `pkt`, alive and not borrowed.
Buffer(pkt) == [live |-> TRUE, pkt |-> pkt, until |-> 0, origin |-> ByCaller]

\* The repacketizer part of the state in a program that has created a
\* Repacketizer and two packet buffers and done nothing else.
\* The native instances the program can have at one time, and its threads.
MaxHandles == 2
NumThreads == 2
Handles == 1 .. MaxHandles
Threads == 1 .. NumThreads

\* An instance: the kind of handle it was created for, whether a handle
\* holds its pointer and on which thread, the native destroy calls made on
\* it, whether a native call was made on it after a destroy, the wrapper
\* operations in progress on it, and whether a RepacketizerState borrows it.
NoInstance ==
    [kind |-> "none", owned |-> FALSE, owner |-> 0, destroyed |-> <<>>,
     late |-> FALSE, running |-> {}, session |-> FALSE]

InitRpVars ==
    /\ clock = 1
    /\ bufs = [b \in Bufs |-> Buffer(IF b = 1 THEN PacketA ELSE PacketB)]
    /\ rpUntil = 0
    /\ sessions = <<>>
    /\ nat = NativeInit
    /\ heap = [h \in Handles |-> NoInstance]

\* ------------------------------------------------------------------------
\* The error translation macros.

\* A translation that takes only the documented codes for failures.
ffi_documented_only(f, code, cont) ==
    IF code < 0 /\ code >= OPUS_ALLOC_FAIL THEN Error_from_code(f, code) ELSE cont

\* ffi!: a negative code returns Err from the operation, any other code is
\* the macro's value and the operation continues with `cont`.
ffi(f, code, cont) ==
    IF code < 0 THEN Error_from_code(f, code) ELSE cont

\* ctl!: a negative code returns Err tagged "<call>(<request>)", any other
\* code is discarded and the operation continues with `cont`.
ctl(f, request, code, cont) ==
    IF code < 0
    THEN Error_from_code(f \o "(" \o request \o ")", code)
    ELSE cont

\* ------------------------------------------------------------------------
\* Control channel: generic_ctls!, encoder_ctls!, decoder_ctls!.

Kinds == {"Encoder", "Decoder", "MSEncoder", "MSDecoder"}

\* The $fn each macro instantiation is given.
CtlFn(k) ==
    CASE k = "Encoder" -> "opus_encoder_ctl"
      [] k = "Decoder" -> "opus_decoder_ctl"
      [] k = "MSEncoder" -> "opus_multistream_encoder_ctl"
      [] k = "MSDecoder" -> "opus_multistream_decoder_ctl"

GenericParams == {"bandwidth", "phase_inversion_disabled", "in_dtx"}
EncoderParams ==
    {"complexity", "bitrate", "vbr", "vbr_constraint", "force_channels",
     "max_bandwidth", "bandwidth", "signal", "application", "lookahead",
     "inband_fec", "packet_loss_perc", "dtx", "lsb_depth",
     "expert_frame_duration", "prediction_disabled"}
DecoderParams == {"gain", "pitch"}
Params == GenericParams \cup EncoderParams \cup DecoderParams

IsEncoder(k) == k \in {"Encoder", "MSEncoder"}

\* A program that holds no codec handle has no control accessor to call.
NoHandle == "none"

\* Which accessors each handle kind has.
HasGet(k, p) ==
    \/ p \in GenericParams
    \/ IsEncoder(k) /\ p \in EncoderParams
    \/ ~IsEncoder(k) /\ p \in DecoderParams
HasSet(k, p) ==
    \/ p = "phase_inversion_disabled"
    \/ IsEncoder(k) /\ p \in EncoderParams \ {"lookahead"}
    \/ ~IsEncoder(k) /\ p = "gain"

\* The typed domain of each accessor.
ParamType(p) ==
    CASE p \in {"vbr", "vbr_constraint", "inband_fec", "dtx", "in_dtx",
                "prediction_disabled", "phase_inversion_disabled"} -> "bool"
      [] p = "bitrate" -> "Bitrate"
      [] p \in {"bandwidth", "max_bandwidth"} -> "Bandwidth"
      [] p = "signal" -> "Signal"
      [] p = "application" -> "Application"
      [] p = "expert_frame_duration" -> "FrameSize"
      [] p = "force_channels" -> "OptionChannels"
      [] OTHER -> "i32"

\* The request name inside OPUS_SET_<name>_REQUEST / OPUS_GET_<name>_REQUEST.
RequestName(p) ==
    CASE p = "complexity" -> "COMPLEXITY"
      [] p = "bitrate" -> "BITRATE"
      [] p = "vbr" -> "VBR"
      [] p = "vbr_constraint" -> "VBR_CONSTRAINT"
      [] p = "force_channels" -> "FORCE_CHANNELS"
      [] p = "max_bandwidth" -> "MAX_BANDWIDTH"
      [] p = "bandwidth" -> "BANDWIDTH"
      [] p = "signal" -> "SIGNAL"
      [] p = "application" -> "APPLICATION"
      [] p = "lookahead" -> "LOOKAHEAD"
      [] p = "inband_fec" -> "INBAND_FEC"
      [] p = "packet_loss_perc" -> "PACKET_LOSS_PERC"
      [] p = "dtx" -> "DTX"
      [] p = "lsb_depth" -> "LSB_DEPTH"
      [] p = "expert_frame_duration" -> "EXPERT_FRAME_DURATION"
      [] p = "prediction_disabled" -> "PREDICTION_DISABLED"
      [] p = "phase_inversion_disabled" -> "PHASE_INVERSION_DISABLED"
      [] p = "in_dtx" -> "IN_DTX"
      [] p = "gain" -> "GAIN"
      [] p = "pitch" -> "PITCH"
SetRequest(p) == "ffi::OPUS_SET_" \o RequestName(p) \o "_REQUEST"
GetRequest(p) == "ffi::OPUS_GET_" \o RequestName(p) \o "_REQUEST"

\* The `what` of a getter's decode: concat!(stringify!($fn), "(OPUS_GET_..)").
GetWhat(k, p) == CtlFn(k) \o "(OPUS_GET_" \o RequestName(p) \o ")"

\* The raw integer a setter hands to the native control call.
EncodeParam(p, x) ==
    CASE ParamType(p) = "bool" -> bool_raw(x)
      [] ParamType(p) = "Bitrate" -> Bitrate_raw(x)
      [] ParamType(p) = "Bandwidth" -> Bandwidth_raw(x)
      [] ParamType(p) = "Signal" -> Signal_raw(x)
      [] ParamType(p) = "Application" -> Application_raw(x)
      [] ParamType(p) = "FrameSize" -> FrameSize_raw(x)
      [] ParamType(p) = "OptionChannels" -> force_channels_raw(x)
      [] OTHER -> x.n

\* What a getter returns for the raw integer the native call wrote.
DecodeParam(k, p, value) ==
    CASE ParamType(p) = "bool" -> bool_from_raw(value)
      [] ParamType(p) = "Bitrate" -> Bitrate_from_raw(value)
      [] ParamType(p) = "Bandwidth" -> Bandwidth_decode(value, GetWhat(k, p))
      [] ParamType(p) = "Signal" -> Signal_from_raw(value, GetWhat(k, p))
      [] ParamType(p) = "Application" -> Application_from_raw(value, GetWhat(k, p))
      [] ParamType(p) = "FrameSize" -> FrameSize_from_raw(value, GetWhat(k, p))
      [] ParamType(p) = "OptionChannels" -> force_channels_from_raw(value, GetWhat(k, p))
      [] OTHER -> Ok(TV("i32", value))

\* Values the checks draw setter arguments from.
BoolValues == {TV("true", 0), TV("false", 0)}
I32Samples == {OPUS_AUTO, -1, 0, 1, 10}
BitsSamples == {OPUS_AUTO, OPUS_BITRATE_MAX, 0, 500, 64000}
BitrateValues ==
    {TV("Auto", 0), TV("Max", 0)} \cup {TV("Bits", n) : n \in BitsSamples}
BandwidthValues ==
    {TV(t, 0) : t \in {"Auto", "Narrowband", "Mediumband", "Wideband",
                       "Superwideband", "Fullband"}}
SignalValues == {TV(t, 0) : t \in {"Auto", "Voice", "Music"}}
ApplicationValues == {TV(t, 0) : t \in {"Voip", "Audio", "LowDelay"}}
FrameSizeValues ==
    {TV(t, 0) : t \in {"Arg", "Ms2_5", "Ms5", "Ms10", "Ms20", "Ms40", "Ms60",
                       "Ms80", "Ms100", "Ms120"}}
OptionChannelsValues == {TV(t, 0) : t \in {"None", "Mono", "Stereo"}}

Domain(p) ==
    CASE ParamType(p) = "bool" -> BoolValues
      [] ParamType(p) = "Bitrate" -> BitrateValues
      [] ParamType(p) = "Bandwidth" -> BandwidthValues
      [] ParamType(p) = "Signal" -> SignalValues
      [] ParamType(p) = "Application" -> ApplicationValues
      [] ParamType(p) = "FrameSize" -> FrameSizeValues
      [] ParamType(p) = "OptionChannels" -> OptionChannelsValues
      [] OTHER -> {TV("i32", n) : n \in I32Samples}

\* The raw integers each enumeration declares.
KnownRaw(p) ==
    CASE ParamType(p) = "Bandwidth" ->
           {OPUS_AUTO} \cup (OPUS_BANDWIDTH_NARROWBAND .. OPUS_BANDWIDTH_FULLBAND)
      [] ParamType(p) = "Signal" -> {OPUS_AUTO, OPUS_SIGNAL_VOICE, OPUS_SIGNAL_MUSIC}
      [] ParamType(p) = "Application" ->
           {OPUS_APPLICATION_VOIP, OPUS_APPLICATION_AUDIO,
            OPUS_APPLICATION_RESTRICTED_LOWDELAY}
      [] ParamType(p) = "FrameSize" -> OPUS_FRAMESIZE_ARG .. OPUS_FRAMESIZE_120_MS
      [] ParamType(p) = "OptionChannels" -> {OPUS_AUTO, 1, 2}

\* Raw integers a native field may hold: every declared constant, its
\* neighbours, and a few plain numbers.  The native numeric space is a
\* superset of what the binding declares.
RawValues ==
    {OPUS_AUTO - 1, OPUS_AUTO, OPUS_AUTO + 1, -2, OPUS_BITRATE_MAX, 0, 1, 2, 3}
    \cup ((OPUS_BANDWIDTH_NARROWBAND - 1) .. (OPUS_BANDWIDTH_FULLBAND + 1))
    \cup ((OPUS_APPLICATION_VOIP - 1) .. (OPUS_APPLICATION_RESTRICTED_LOWDELAY + 1))
    \cup ((OPUS_SIGNAL_VOICE - 1) .. (OPUS_SIGNAL_MUSIC + 1))
    \cup ((OPUS_FRAMESIZE_ARG - 1) .. (OPUS_FRAMESIZE_120_MS + 1))

\* The native control call of a setter: a negative answer leaves the field
\* as it was, any other answer means the field took the value.
NativeCtlSet(field, raw, code) == IF code < 0 THEN field ELSE raw

\* The native control call of a getter writes the field through the
\* pointer when it succeeds; `value` keeps its initial 0 otherwise.
NativeCtlGet(field, code) == IF code < 0 THEN 0 ELSE field

\* set_<param>(x): encode, one ctl! call, Ok(()).
set_param(x) ==
    /\ HasSet(kind, param)
    /\ \E code \in CtlCodes :
         LET value == EncodeParam(param, x) IN
         /\ stored' = NativeCtlSet(stored, value, code)
         /\ lastOp' = Op("set", x, value, <<Call(CtlFn(kind), code)>>,
                        ctl(CtlFn(kind), SetRequest(param), code, Ok(Unit)),
                        NoPrev)
    /\ UNCHANGED <<lifeVars, kind, param, rpVars>>

\* get_<param>(): `let mut value = 0`, one ctl! call, decode.
get_param ==
    /\ HasGet(kind, param)
    /\ \E code \in CtlCodes :
         LET value == NativeCtlGet(stored, code) IN
         lastOp' = Op("get", Unit, value, <<Call(CtlFn(kind), code)>>,
                      ctl(CtlFn(kind), GetRequest(param), code,
                          DecodeParam(kind, param, value)),
                      Summary(lastOp))
    /\ UNCHANGED <<lifeVars, kind, param, stored, rpVars>>

InitCtl ==
    /\ kind \in Kinds
    /\ param \in {p \in Params : HasGet(kind, p)}
    /\ stored \in RawValues
    /\ lastOp = NoOp
    /\ InitRpVars

NextCtl ==
    \/ \E x \in Domain(param) : set_param(x)
    \/ get_param

SpecCtl == InitCtl /\ [][NextCtl]_vars

\* ------------------------------------------------------------------------
\* Length guard.

\* i32::MAX, the largest value of the native c_int.
INT_MAX == 2147483647

\* A usize n is kept as n = hi * 2^31 + lo with 0 <= lo <= INT_MAX, so that
\* values past c_int's range stay exact.
USize(hi, lo) == [hi |-> hi, lo |-> lo]

\* How far past the c_int range the drawn sizes go (in multiples of 2^31).
MaxHi == 2
LoSamples == {0, 2, 960, INT_MAX}
USizes == {USize(h, l) : h \in 0 .. MaxHi, l \in LoSamples}

\* A guard that wraps instead of failing.
check_len_wrapping(val) ==
    [panic |-> FALSE,
     val |-> IF val.hi % 2 = 0 THEN val.lo ELSE val.lo - INT_MAX - 1]

\* check_len: c_int::try_from(val), panic on Err.
check_len(val) ==
    IF val.hi = 0
    THEN [panic |-> FALSE, val |-> val.lo]
    ELSE [panic |-> TRUE, val |-> 0]

\* A length that stops at c_int::MAX instead of failing.
len_saturating(slice_len) ==
    [panic |-> FALSE, val |-> IF slice_len.hi = 0 THEN slice_len.lo ELSE INT_MAX]

\* len(slice) == check_len(slice.len())
len(slice_len) == check_len(slice_len)

\* `n as i32`: the low 32 bits, read as two's complement.  Never panics.
as_i32(val) ==
    [panic |-> FALSE,
     val |-> IF val.hi % 2 = 0 THEN val.lo ELSE val.lo - INT_MAX - 1]

\* Every operation that hands a buffer length or an index to a native
\* function: the native function, and per length argument (in argument
\* order) the conversion the source applies and whether the result is
\* divided by the channel count.
LA(conv, div) == [conv |-> conv, div |-> div]
LenOps ==
    [op \in {"Encoder::encode", "Encoder::encode_float", "Decoder::decode",
             "Decoder::decode_float", "Decoder::get_nb_samples",
             "packet::get_nb_frames", "packet::get_nb_samples", "packet::parse",
             "packet::pad", "packet::unpad", "packet::multistream_pad",
             "packet::multistream_unpad", "SoftClip::apply",
             "RepacketizerState::cat", "RepacketizerState::out",
             "RepacketizerState::out_range", "MSEncoder::new",
             "MSEncoder::encode", "MSEncoder::encode_float", "MSDecoder::new",
             "MSDecoder::decode", "MSDecoder::decode_float"} |->
      CASE op = "Encoder::encode" ->
             [fn |-> "opus_encode", args |-> <<LA("len", TRUE), LA("len", FALSE)>>]
        [] op = "Encoder::encode_float" ->
             [fn |-> "opus_encode_float",
              args |-> <<LA("len", TRUE), LA("len", FALSE)>>]
        [] op = "Decoder::decode" ->
             [fn |-> "opus_decode", args |-> <<LA("len", FALSE), LA("len", TRUE)>>]
        [] op = "Decoder::decode_float" ->
             [fn |-> "opus_decode_float",
              args |-> <<LA("len", FALSE), LA("len", TRUE)>>]
        [] op = "Decoder::get_nb_samples" ->
             [fn |-> "opus_decoder_get_nb_samples", args |-> <<LA("as", FALSE)>>]
        [] op = "packet::get_nb_frames" ->
             [fn |-> "opus_packet_get_nb_frames", args |-> <<LA("len", FALSE)>>]
        [] op = "packet::get_nb_samples" ->
             [fn |-> "opus_packet_get_nb_samples", args |-> <<LA("len", FALSE)>>]
        [] op = "packet::parse" ->
             [fn |-> "opus_packet_parse", args |-> <<LA("len", FALSE)>>]
        [] op = "packet::pad" ->
             [fn |-> "opus_packet_pad",
              args |-> <<LA("check_len", FALSE), LA("len", FALSE)>>]
        [] op = "packet::unpad" ->
             [fn |-> "opus_packet_unpad", args |-> <<LA("len", FALSE)>>]
        [] op = "packet::multistream_pad" ->
             [fn |-> "opus_multistream_packet_pad",
              args |-> <<LA("check_len", FALSE), LA("len", FALSE)>>]
        [] op = "packet::multistream_unpad" ->
             [fn |-> "opus_multistream_packet_unpad", args |-> <<LA("len", FALSE)>>]
        [] op = "SoftClip::apply" ->
             [fn |-> "opus_pcm_soft_clip", args |-> <<LA("len", TRUE)>>]
        [] op = "RepacketizerState::cat" ->
             [fn |-> "opus_repacketizer_cat", args |-> <<LA("len", FALSE)>>]
        [] op = "RepacketizerState::out" ->
             [fn |-> "opus_repacketizer_out", args |-> <<LA("len", FALSE)>>]
        [] op = "RepacketizerState::out_range" ->
             [fn |-> "opus_repacketizer_out_range",
              args |-> <<LA("check_len", FALSE), LA("check_len", FALSE),
                         LA("len", FALSE)>>]
        [] op = "MSEncoder::new" ->
             [fn |-> "opus_multistream_encoder_create", args |-> <<LA("len", FALSE)>>]
        [] op = "MSEncoder::encode" ->
             [fn |-> "opus_multistream_encode",
              args |-> <<LA("len", TRUE), LA("len", FALSE)>>]
        [] op = "MSEncoder::encode_float" ->
             [fn |-> "opus_multistream_encode_float",
              args |-> <<LA("len", TRUE), LA("len", FALSE)>>]
        [] op = "MSDecoder::new" ->
             [fn |-> "opus_multistream_decoder_create", args |-> <<LA("len", FALSE)>>]
        [] op = "MSDecoder::decode" ->
             [fn |-> "opus_multistream_decode",
              args |-> <<LA("len", FALSE), LA("len", TRUE)>>]
        [] op = "MSDecoder::decode_float" ->
             [fn |-> "opus_multistream_decode_float",
              args |-> <<LA("len", FALSE), LA("len", TRUE)>>]]

\* The conversion the source applies to one length argument.
Convert(conv, val) ==
    CASE conv = "len" -> len(val)
      [] conv = "check_len" -> check_len(val)
      [] conv = "as" -> as_i32(val)

\* The channel counts a handle can have been constructed with.
ChannelCounts == {1, 2}

\* One operation as far as its lengths go: the argument expressions are
\* evaluated first (a panic unwinds before the call), then the native
\* function is called once with the converted lengths.
call_with_lengths(op, sizes, channels, code) ==
    LET args == LenOps[op].args
        conv == [i \in DOMAIN args |-> Convert(args[i].conv, sizes[i])]
        panics == \E i \in DOMAIN args : conv[i].panic
        lens == [i \in DOMAIN args |->
                   IF args[i].div THEN conv[i].val \div channels ELSE conv[i].val]
    IN  /\ lastOp' =
             IF panics
             THEN [Op(op, TV("channels", channels), 0, <<>>, Panic, NoPrev)
                   EXCEPT !.sizes = sizes]
             ELSE [Op(op, TV("channels", channels), 0, <<Call(LenOps[op].fn, code)>>,
                      ffi(LenOps[op].fn, code, Ok(TV("usize", code))), NoPrev)
                   EXCEPT !.sizes = sizes, !.lens = lens]
        /\ UNCHANGED <<lifeVars, kind, param, stored, rpVars>>

\* The answers drawn for these calls: a failure and a count.
LenCodes == {OPUS_BAD_ARG, 2}

InitLen ==
    /\ kind = NoHandle
    /\ param = NoHandle
    /\ stored = 0
    /\ lastOp = NoOp
    /\ InitRpVars

\* The operations keep no state of their own between calls: each behaviour
\* makes one call, on inputs drawn here.
NextLen ==
    /\ lastOp.op = "none"
    /\ \E op \in DOMAIN LenOps :
        \E sizes \in [DOMAIN LenOps[op].args -> USizes] :
          \E channels \in ChannelCounts, code \in LenCodes :
            call_with_lengths(op, sizes, channels, code)

SpecLen == InitLen /\ [][NextLen]_vars

\* ------------------------------------------------------------------------
\* Packet queries (mod packet).

\* The packet lengths drawn, from the empty packet up.
MaxPacketLen == 3
PacketLens == 0 .. MaxPacketLen

\* What the native query may answer for a non-empty packet: a status code,
\* a count, or a bandwidth constant.
PacketAnswers ==
    NativeCodes \cup {2, 3, 960, OPUS_BANDWIDTH_NARROWBAND - 1,
                      OPUS_BANDWIDTH_NARROWBAND, OPUS_BANDWIDTH_FULLBAND}

\* The native queries that are given the length answer OPUS_BAD_ARG for a
\* length below 1.
NativeWithLen(n, answer) == IF n < 1 THEN OPUS_BAD_ARG ELSE answer

\* packet::get_bandwidth
packet_get_bandwidth(n, answer) ==
    /\ lastOp' =
         IF n = 0
         THEN Op("packet::get_bandwidth", TV("len", n), 0, <<>>,
                 Error_bad_arg("opus_packet_get_bandwidth"), NoPrev)
         ELSE Op("packet::get_bandwidth", TV("len", n), answer,
                 <<Call("opus_packet_get_bandwidth", answer)>>,
                 ffi("opus_packet_get_bandwidth", answer,
                     Bandwidth_decode(answer, "opus_packet_get_bandwidth")),
                 NoPrev)
    /\ UNCHANGED <<lifeVars, kind, param, stored, rpVars>>

\* packet::get_nb_channels
packet_get_nb_channels(n, answer) ==
    /\ lastOp' =
         IF n = 0
         THEN Op("packet::get_nb_channels", TV("len", n), 0, <<>>,
                 Error_bad_arg("opus_packet_get_nb_channels"), NoPrev)
         ELSE Op("packet::get_nb_channels", TV("len", n), answer,
                 <<Call("opus_packet_get_nb_channels", answer)>>,
                 ffi("opus_packet_get_nb_channels", answer,
                     CASE answer = 1 -> Ok(TV("Mono", 0))
                       [] answer = 2 -> Ok(TV("Stereo", 0))
                       [] OTHER -> Error_bad_arg("opus_packet_get_nb_channels")),
                 NoPrev)
    /\ UNCHANGED <<lifeVars, kind, param, stored, rpVars>>

\* packet::get_nb_frames: no emptiness test, the length goes to the native
\* query.
packet_get_nb_frames(n, answer) ==
    LET l == len(USize(0, n))
        code == NativeWithLen(l.val, answer)
    IN  /\ lastOp' =
             [Op("packet::get_nb_frames", TV("len", n), code,
                 <<Call("opus_packet_get_nb_frames", code)>>,
                 ffi("opus_packet_get_nb_frames", code, Ok(TV("usize", code))),
                 NoPrev)
              EXCEPT !.lens = <<l.val>>]
        /\ UNCHANGED <<lifeVars, kind, param, stored, rpVars>>

\* packet::get_nb_samples: no emptiness test either.
packet_get_nb_samples(n, answer) ==
    LET l == len(USize(0, n))
        code == NativeWithLen(l.val, answer)
    IN  /\ lastOp' =
             [Op("packet::get_nb_samples", TV("len", n), code,
                 <<Call("opus_packet_get_nb_samples", code)>>,
                 ffi("opus_packet_get_nb_samples", code, Ok(TV("usize", code))),
                 NoPrev)
              EXCEPT !.lens = <<l.val>>]
        /\ UNCHANGED <<lifeVars, kind, param, stored, rpVars>>

\* packet::get_samples_per_frame
packet_get_samples_per_frame(n, answer) ==
    /\ lastOp' =
         IF n = 0
         THEN Op("packet::get_samples_per_frame", TV("len", n), 0, <<>>,
                 Error_bad_arg("opus_packet_get_samples_per_frame"), NoPrev)
         ELSE Op("packet::get_samples_per_frame", TV("len", n), answer,
                 <<Call("opus_packet_get_samples_per_frame", answer)>>,
                 ffi("opus_packet_get_samples_per_frame", answer,
                     Ok(TV("usize", answer))),
                 NoPrev)
    /\ UNCHANGED <<lifeVars, kind, param, stored, rpVars>>

PacketQueries ==
    {"packet::get_bandwidth", "packet::get_nb_channels", "packet::get_nb_frames",
     "packet::get_nb_samples", "packet::get_samples_per_frame"}

NextPkt ==
    \E n \in PacketLens, answer \in PacketAnswers :
      \/ packet_get_bandwidth(n, answer)
      \/ packet_get_nb_channels(n, answer)
      \/ packet_get_nb_frames(n, answer)
      \/ packet_get_nb_samples(n, answer)
      \/ packet_get_samples_per_frame(n, answer)

SpecPkt == InitLen /\ [][NextPkt]_vars

\* ------------------------------------------------------------------------
\* Classification of native codes.

\* The c_int values drawn: a range around zero and the two ends of c_int.
MaxCode == 60
CIntSamples == (-MaxCode .. MaxCode) \cup {INT_MAX, -INT_MAX - 1}

\* ErrorCode::from_int(value), as Error::from_code calls it.
ErrorCode_classify(value) ==
    /\ lastOp' = Op("ErrorCode::from_int", TV("c_int", value), value, <<>>,
                    Ok(TV(ErrorCode_from_int(value), 0)), NoPrev)
    /\ UNCHANGED <<lifeVars, kind, param, stored, rpVars>>

\* ErrorCode::from_int(k as i32)
ErrorCode_round_trip(k) ==
    /\ lastOp' = Op("ErrorCode::from_int(k as i32)", TV(k, 0), ErrorCode_raw(k), <<>>,
                    Ok(TV(ErrorCode_from_int(ErrorCode_raw(k)), 0)), NoPrev)
    /\ UNCHANGED <<lifeVars, kind, param, stored, rpVars>>

NextErr ==
    \/ \E value \in CIntSamples : ErrorCode_classify(value)
    \/ \E k \in ErrorCodes : ErrorCode_round_trip(k)

SpecErr == InitLen /\ [][NextErr]_vars

\* ------------------------------------------------------------------------
\* Encoding and decoding of Bitrate.

\* The explicit rates drawn: the c_int samples, the values around the two
\* sentinels, and two rates an encoder is commonly given.
BitrateNear == 2
RawBitrates ==
    CIntSamples \cup (OPUS_AUTO - BitrateNear .. OPUS_AUTO + BitrateNear)
                \cup {64000, 510000}

\* Every Bitrate drawn: Auto, Max and Bits(n).
BitrateSamples == {TV("Auto", 0), TV("Max", 0)} \cup {TV("Bits", n) : n \in RawBitrates}

\* Bitrate::from_raw(value), as get_bitrate calls it on the native answer.
Bitrate_decode(value) ==
    /\ lastOp' = Op("Bitrate::from_raw", TV("c_int", value), value, <<>>,
                    Bitrate_from_raw(value), NoPrev)
    /\ UNCHANGED <<lifeVars, kind, param, stored, rpVars>>

\* Bitrate::from_raw(b.raw()): what get_bitrate makes of the integer
\* set_bitrate(b) passed.
Bitrate_round_trip(b) ==
    /\ lastOp' = Op("Bitrate::from_raw(b.raw())", b, Bitrate_raw(b), <<>>,
                    Bitrate_from_raw(Bitrate_raw(b)), NoPrev)
    /\ UNCHANGED <<lifeVars, kind, param, stored, rpVars>>

NextBitrate ==
    \/ \E value \in RawBitrates : Bitrate_decode(value)
    \/ \E b \in BitrateSamples : Bitrate_round_trip(b)

SpecBitrate == InitLen /\ [][NextBitrate]_vars

\* ------------------------------------------------------------------------
\* Handles and the native instances they own.

\* The native teardown each Drop implementation calls.
DestroyFn(k) ==
    CASE k = "Encoder" -> "opus_encoder_destroy"
      [] k = "Decoder" -> "opus_decoder_destroy"
      [] k = "MSEncoder" -> "opus_multistream_encoder_destroy"
      [] k = "MSDecoder" -> "opus_multistream_decoder_destroy"
      [] k = "Repacketizer" -> "opus_repacketizer_destroy"

\* A slot of the heap native creation can place an instance in: one never
\* used, or one whose instance has been destroyed.
Free(h) == heap[h].kind = "none" \/ heap[h].destroyed # <<>>
FreeSlot == CHOOSE h \in Handles : Free(h) /\ \A g \in Handles : Free(g) => h <= g

\* The heap after a constructor: native creation that returned a non-null
\* pointer has produced an instance; the handle holds it when the
\* constructor returned Ok, and nothing holds it otherwise.
Created(k, ptr, result) ==
    IF ptr = "null" THEN heap
    ELSE [heap EXCEPT ![FreeSlot] =
            [NoInstance EXCEPT !.kind = k, !.owned = (result.tag = "Ok"),
                               !.owner = 1]]

\* Drop::drop without the native teardown.
Dropped_without_destroy(inst) == [inst EXCEPT !.owned = FALSE]

\* Drop::drop: `unsafe { ffi::opus_*_destroy(self.ptr) }`, after which the
\* handle is gone.
Dropped(inst) ==
    [inst EXCEPT !.owned = FALSE, !.destroyed = Append(@, DestroyFn(inst.kind))]

\* ------------------------------------------------------------------------
\* Construction.

\* What native creation may hand back: a pointer (null or not) and the
\* value it left in `error`, which the constructor initialised to 0.
PtrValues == {"null", "nonnull"}

SampleRates == {8000, 12000, 16000, 24000, 48000, 48001}

\* Encoder::new, Decoder::new, MSEncoder::new, MSDecoder::new: the test
\* after native creation.
codec_new(k, create, sample_rate, ptr, error) ==
    /\ ptr # "null" => \E h \in Handles : Free(h)
    /\ lastOp' =
         Op(k \o "::new", TV(ptr, sample_rate), error, <<Call(create, error)>>,
            IF error # OPUS_OK \/ ptr = "null"
            THEN Error_from_code(create, error)
            ELSE Ok(TV("handle", 0)),
            NoPrev)
    /\ heap' = Created(k, ptr, lastOp'.result)
    /\ UNCHANGED <<kind, param, stored, rpVars>>

CreateFn(k) ==
    CASE k = "Encoder" -> "opus_encoder_create"
      [] k = "Decoder" -> "opus_decoder_create"
      [] k = "MSEncoder" -> "opus_multistream_encoder_create"
      [] k = "MSDecoder" -> "opus_multistream_decoder_create"

\* Repacketizer::new: native creation reports nothing but the pointer.
Repacketizer_new(ptr) ==
    /\ ptr # "null" => \E h \in Handles : Free(h)
    /\ lastOp' =
         Op("Repacketizer::new", TV(ptr, 0), 0,
            <<Call("opus_repacketizer_create", 0)>>,
            IF ptr = "null"
            THEN Error_from_code("opus_repacketizer_create", OPUS_ALLOC_FAIL)
            ELSE Ok(TV("handle", 0)),
            NoPrev)
    /\ heap' = Created("Repacketizer", ptr, lastOp'.result)
    /\ UNCHANGED <<kind, param, stored, rpVars>>

NextNew ==
    \/ \E k \in Kinds, sample_rate \in SampleRates, ptr \in PtrValues,
          error \in NativeCodes :
         codec_new(k, CreateFn(k), sample_rate, ptr, error)
    \/ \E ptr \in PtrValues : Repacketizer_new(ptr)

SpecNew == InitLen /\ [][NextNew]_vars

\* ------------------------------------------------------------------------
\* The life of a handle: construction, operations from the program's
\* threads, a move to another thread, the end of its life.

\* What native creation returns: the encoder, decoder and multistream create
\* functions release the state and return null when they report an error;
\* opus_repacketizer_create reports nothing but the pointer.
NativeCreate ==
    {[ptr |-> "nonnull", error |-> OPUS_OK]}
      \cup {[ptr |-> "null", error |-> e] : e \in NativeCodes \ {OPUS_OK}}

\* The receiver each operation is declared with.
HandleOps(k) ==
    CASE k \in {"Encoder", "MSEncoder"} -> {"encode", "encode_float", "reset_state"}
      [] k = "Decoder" -> {"decode", "decode_float", "get_nb_samples", "reset_state"}
      [] k = "MSDecoder" -> {"decode", "decode_float", "reset_state"}
      [] k = "Repacketizer" -> {"combine"}
      [] OTHER -> {}
Receiver(k, op) ==
    IF k = "Decoder" /\ op = "get_nb_samples" THEN "&self" ELSE "&mut self"

\* Every handle shareable between threads.
Sync_every_handle(k) == TRUE

\* The handles are Send (unsafe impl Send) and hold a raw pointer, with no
\* impl of Sync: a shared reference to one cannot reach another thread.
Sync(k) == FALSE

Busy(t) == \E h \in Handles : \E r \in heap[h].running : r.t = t

\* The borrow a call needs can be taken: `&mut self` when nothing else
\* borrows the handle, `&self` when no exclusive borrow is out and the
\* reference is on the thread that holds the handle.
Borrowable(t, h, recv) ==
    IF recv = "&mut self"
    THEN heap[h].running = {} /\ ~heap[h].session
    ELSE /\ \A r \in heap[h].running : r.recv = "&self"
         /\ ~heap[h].session
         /\ (t = heap[h].owner \/ Sync(heap[h].kind))

\* A thread enters an operation of a handle: the native call is made on the
\* handle's pointer.
Handle_call(t, h, op) ==
    /\ heap[h].owned
    /\ op \in HandleOps(heap[h].kind)
    /\ ~Busy(t)
    /\ Borrowable(t, h, Receiver(heap[h].kind, op))
    /\ heap' = [heap EXCEPT
                  ![h].running = @ \cup {[t |-> t, op |-> op,
                                          recv |-> Receiver(heap[h].kind, op)]},
                  ![h].late = @ \/ heap[h].destroyed # <<>>]
    /\ lastOp' = NoOp
    /\ UNCHANGED <<ctlVars, rpVars>>

\* The operation returns.
Handle_return(t, h) ==
    /\ \E r \in heap[h].running : r.t = t
    /\ heap' = [heap EXCEPT ![h].running = {r \in @ : r.t # t}]
    /\ lastOp' = NoOp
    /\ UNCHANGED <<ctlVars, rpVars>>

\* The handle is moved to another thread.
Handle_send(h, t) ==
    /\ heap[h].owned
    /\ heap[h].running = {}
    /\ ~heap[h].session
    /\ t # heap[h].owner
    /\ heap' = [heap EXCEPT ![h].owner = t]
    /\ lastOp' = NoOp
    /\ UNCHANGED <<ctlVars, rpVars>>

\* A handle goes out of scope only when nothing borrows it.
Droppable(h) == heap[h].owned /\ heap[h].running = {} /\ ~heap[h].session

\* The handle's life ends: Drop::drop.
Handle_drop(h) ==
    /\ Droppable(h)
    /\ heap' = [heap EXCEPT ![h] = Dropped(@)]
    /\ lastOp' = NoOp
    /\ UNCHANGED <<ctlVars, rpVars>>

\* Repacketizer::begin hands out a RepacketizerState, which keeps a copy of
\* the pointer and the exclusive borrow.
State_begin(h) ==
    /\ heap[h].owned
    /\ heap[h].kind = "Repacketizer"
    /\ Borrowable(heap[h].owner, h, "&mut self")
    /\ heap' = [heap EXCEPT ![h].session = TRUE,
                            ![h].late = @ \/ heap[h].destroyed # <<>>]
    /\ lastOp' = NoOp
    /\ UNCHANGED <<ctlVars, rpVars>>

\* cat, get_nb_frames, out, out_range: a native call on the state's pointer.
State_call(h) ==
    /\ heap[h].session
    /\ heap' = [heap EXCEPT ![h].late = @ \/ heap[h].destroyed # <<>>]
    /\ lastOp' = NoOp
    /\ UNCHANGED <<ctlVars, rpVars>>

\* The RepacketizerState's life ends; it has no Drop.
State_end(h) ==
    /\ heap[h].session
    /\ heap' = [heap EXCEPT ![h].session = FALSE]
    /\ lastOp' = NoOp
    /\ UNCHANGED <<ctlVars, rpVars>>

LifeRates == {48000}

NextLife ==
    \/ \E k \in Kinds, sample_rate \in LifeRates, c \in NativeCreate :
         codec_new(k, CreateFn(k), sample_rate, c.ptr, c.error)
    \/ \E ptr \in PtrValues : Repacketizer_new(ptr)
    \/ \E t \in Threads, h \in Handles :
         \E op \in HandleOps(heap[h].kind) : Handle_call(t, h, op)
    \/ \E t \in Threads, h \in Handles : Handle_return(t, h)
    \/ \E h \in Handles, t \in Threads : Handle_send(h, t)
    \/ \E h \in Handles : Handle_drop(h)
    \/ \E h \in Handles : State_begin(h)
    \/ \E h \in Handles : State_call(h)
    \/ \E h \in Handles : State_end(h)

SpecLife == InitLen /\ [][NextLife]_vars

\* ------------------------------------------------------------------------
\* Construction at a sample rate.

\* A u32 v is kept as v = hi * 2^31 + lo with hi in {0, 1}, as usize is.

\* A cast that keeps the magnitude of a value past i32::MAX.
u32_as_i32_magnitude(v) == IF v.hi = 1 THEN INT_MAX - v.lo + 1 ELSE v.lo

\* `sample_rate as i32` on a u32: the same 32 bits, read as two's complement.
u32_as_i32(v) == IF v.hi = 1 THEN v.lo - INT_MAX - 1 ELSE v.lo

\* The u32 values drawn for sample_rate: the rates of the tests, rates the
\* codec does not have, and values past i32::MAX: 2^32 - 48000 and 2^32 - 1.
U32Rates ==
    {USize(0, r) : r \in SampleRates \cup {0, 44100, 96000}}
      \cup {USize(1, INT_MAX - 48000 + 1), USize(1, INT_MAX)}

\* What native creation returns for a rate: opus_encoder_create and
\* opus_decoder_create take 8000, 12000, 16000, 24000 or 48000 and answer
\* OPUS_BAD_ARG with a null pointer for anything else.
NativeRates == {8000, 12000, 16000, 24000, 48000}
NativeCreateAt(Fs) ==
    IF Fs \in NativeRates
    THEN [ptr |-> "nonnull", error |-> OPUS_OK]
    ELSE [ptr |-> "null", error |-> OPUS_BAD_ARG]

\* Encoder::new, Decoder::new with the native answer for the rate given.
codec_new_at(k, sample_rate) ==
    LET c == NativeCreateAt(u32_as_i32(sample_rate))
    IN  codec_new(k, CreateFn(k), sample_rate, c.ptr, c.error)

NextRate ==
    \/ \E k \in {"Encoder", "Decoder"}, sample_rate \in U32Rates :
         codec_new_at(k, sample_rate)
    \/ \E h \in Handles : Handle_drop(h)

SpecRate == InitLen /\ [][NextRate]_vars

\* ------------------------------------------------------------------------
\* Decoding and encoding, on handles made for 48000 Hz as in the tests.

\* 2.5 ms and 120 ms of samples per channel at that rate.
FrameUnit == 120
MaxDuration == 5760
EncoderFrameSizes == {120, 240, 480, 960, 1920, 2880, 3840, 4800, 5760}

\* The slice lengths drawn.
PacketSizes == {USize(0, 0), USize(0, 3), USize(1, 0)}
InputSizes == {USize(0, 0), USize(0, 960), USize(0, 1920), USize(0, 2881), USize(1, 0)}
OutputSizes ==
    {USize(0, l) : l \in {0, 100, 240, 960, 5760, 11520, 11620}} \cup {USize(1, 0)}

Min(a, b) == IF a <= b THEN a ELSE b

\* What the native decoder answers.  A call without data (packet loss) or
\* with decode_fec set must ask for a whole number of 2.5 ms units; without
\* data it conceals exactly frame_size samples per channel, whatever was
\* decoded before, and rejects an empty frame with an error that depends on
\* the entry point; the multistream decoder first limits frame_size to
\* 120 ms.  With data the answer is the packet's (`answer`: an error, or
\* the packet's duration, which must fit).
NativeDecode(k, ptr, length, frame_size, fec, answer) ==
    LET fs == IF k = "MSDecoder" THEN Min(frame_size, MaxDuration) ELSE frame_size
        lost == ptr = "null" \/ length = 0
    IN  IF lost /\ fs = 0 THEN answer.empty
        ELSE IF (lost \/ fec) /\ fs % FrameUnit # 0 THEN OPUS_BAD_ARG
        ELSE IF lost THEN fs
        ELSE IF answer.packet > fs THEN OPUS_BUFFER_TOO_SMALL
        ELSE answer.packet

DecodeAnswers ==
    {[empty |-> OPUS_BAD_ARG, packet |-> OPUS_INVALID_PACKET],
     [empty |-> OPUS_BUFFER_TOO_SMALL, packet |-> FrameUnit],
     [empty |-> OPUS_BAD_ARG, packet |-> 960]}

\* What the native encoder answers: it rejects an output of no bytes and a
\* frame of no samples before anything else, then a frame that is not one
\* of its durations; otherwise the answer is the encoder's (`answer`: an
\* error or the packet's length, which must fit).
NativeEncode(frame_size, max_data_bytes, answer) ==
    IF frame_size <= 0 \/ max_data_bytes <= 0 THEN OPUS_BAD_ARG
    ELSE IF frame_size \notin EncoderFrameSizes THEN OPUS_BAD_ARG
    ELSE IF answer > max_data_bytes THEN OPUS_BUFFER_TOO_SMALL
    ELSE answer

EncodeAnswers == {OPUS_INTERNAL_ERROR, 3, 200}

\* What the native multistream encoder answers: as the encoder, except that
\* it looks at the frame first and calls an output shorter than its smallest
\* packet too small.
NativeMSEncode(frame_size, max_data_bytes, answer) ==
    IF frame_size <= 0 \/ frame_size \notin EncoderFrameSizes THEN OPUS_BAD_ARG
    ELSE IF max_data_bytes < 1 \/ answer > max_data_bytes THEN OPUS_BUFFER_TOO_SMALL
    ELSE answer

\* A length handed over without the division.
PerChannel_undivided(n, channels) == n

\* `len(slice) / self.channels as c_int`
PerChannel(n, channels) == n \div channels

DecodeFn(k, float) ==
    CASE k = "Decoder" /\ ~float -> "opus_decode"
      [] k = "Decoder" /\ float -> "opus_decode_float"
      [] k = "MSDecoder" /\ ~float -> "opus_multistream_decode"
      [] k = "MSDecoder" /\ float -> "opus_multistream_decode_float"
EncodeFn(float) == IF float THEN "opus_encode_float" ELSE "opus_encode"

\* The data pointer always taken from the slice.
DataPtr_of_slice(input) == "data"

\* `match input.len() { 0 => std::ptr::null(), _ => input.as_ptr() }`
DataPtr(input) == IF input = USize(0, 0) THEN "null" ELSE "data"

\* What the native decoder last decoded or concealed, as the operation
\* found it.
Decoded(samples) == [op |-> "decoded", ok |-> samples # 0, arg |-> TV("samples", samples)]

\* Decoder::decode, Decoder::decode_float, MSDecoder::decode,
\* MSDecoder::decode_float.
Decoder_decode(float, input, output, channels, fec, answer) ==
    /\ kind \in {"Decoder", "MSDecoder"}
    /\ LET name == kind \o (IF float THEN "::decode_float" ELSE "::decode")
           fn == DecodeFn(kind, float)
           ptr == DataPtr(input)
           li == len(input)
           lo == len(output)
           frame_size == PerChannel(lo.val, channels)
           code == NativeDecode(kind, ptr, li.val, frame_size, fec, answer)
       IN  IF li.panic \/ lo.panic
           THEN /\ lastOp' = [Op(name, TV(ptr, IF fec THEN 1 ELSE 0), channels, <<>>,
                                 Panic, Decoded(stored))
                              EXCEPT !.sizes = <<input, output>>]
                /\ stored' = stored
           ELSE /\ lastOp' = [Op(name, TV(ptr, IF fec THEN 1 ELSE 0), channels,
                                 <<Call(fn, code)>>,
                                 ffi(fn, code, Ok(TV("usize", code))), Decoded(stored))
                              EXCEPT !.sizes = <<input, output>>,
                                     !.lens = <<li.val, frame_size>>]
                /\ stored' = IF code > 0 THEN code ELSE stored
    /\ UNCHANGED <<lifeVars, kind, param, rpVars>>

\* Encoder::encode, Encoder::encode_float.
Encoder_encode(float, input, output, channels, answer) ==
    /\ kind = "Encoder"
    /\ LET name == IF float THEN "Encoder::encode_float" ELSE "Encoder::encode"
           fn == EncodeFn(float)
           li == len(input)
           lo == len(output)
           frame_size == PerChannel(li.val, channels)
           code == NativeEncode(frame_size, lo.val, answer)
       IN  lastOp' =
             IF li.panic \/ lo.panic
             THEN [Op(name, TV("state", stored), channels, <<>>, Panic, NoPrev)
                   EXCEPT !.sizes = <<input, output>>]
             ELSE [Op(name, TV("state", stored), channels, <<Call(fn, code)>>,
                      ffi(fn, code, Ok(TV("usize", code))), NoPrev)
                   EXCEPT !.sizes = <<input, output>>, !.lens = <<frame_size, lo.val>>]
    /\ UNCHANGED <<lifeVars, kind, param, stored, rpVars>>

\* MSEncoder::encode, MSEncoder::encode_float.
MSEncoder_encode(float, input, output, channels, answer) ==
    /\ kind = "MSEncoder"
    /\ LET name == IF float THEN "MSEncoder::encode_float" ELSE "MSEncoder::encode"
           fn == IF float THEN "opus_multistream_encode_float"
                 ELSE "opus_multistream_encode"
           li == len(input)
           lo == len(output)
           frame_size == PerChannel(li.val, channels)
           code == NativeMSEncode(frame_size, lo.val, answer)
       IN  lastOp' =
             IF li.panic \/ lo.panic
             THEN [Op(name, TV("state", stored), channels, <<>>, Panic, NoPrev)
                   EXCEPT !.sizes = <<input, output>>]
             ELSE [Op(name, TV("state", stored), channels, <<Call(fn, code)>>,
                      ffi(fn, code, Ok(TV("usize", code))), NoPrev)
                   EXCEPT !.sizes = <<input, output>>, !.lens = <<frame_size, lo.val>>]
    /\ UNCHANGED <<lifeVars, kind, param, stored, rpVars>>

\* A control call changes the encoder's state between encodes.
Encoder_configure(value) ==
    /\ kind = "Encoder"
    /\ stored' = value
    /\ lastOp' = NoOp
    /\ UNCHANGED <<lifeVars, kind, param, rpVars>>

\* The handle: its kind, and in `param` the channel count it was constructed
\* with (Channels for Encoder and Decoder, the length of the mapping for the
\* multistream handles).
MSChannelCounts == {1, 2, 3}
InitIo ==
    /\ kind \in Kinds
    /\ param \in (IF kind \in {"MSEncoder", "MSDecoder"} THEN MSChannelCounts
                  ELSE ChannelCounts)
    /\ stored = 0
    /\ lastOp = NoOp
    /\ InitRpVars

NextIo ==
    \/ \E float \in BOOLEAN, input \in PacketSizes, output \in OutputSizes,
          fec \in BOOLEAN, answer \in DecodeAnswers :
         Decoder_decode(float, input, output, param, fec, answer)
    \/ \E float \in BOOLEAN, input \in InputSizes, output \in OutputSizes,
          answer \in EncodeAnswers :
         Encoder_encode(float, input, output, param, answer)
    \/ \E float \in BOOLEAN, input \in InputSizes, output \in OutputSizes,
          answer \in EncodeAnswers :
         MSEncoder_encode(float, input, output, param, answer)
    \/ \E value \in {0, 1} : Encoder_configure(value)

SpecIo == InitIo /\ [][NextIo]_vars

\* ------------------------------------------------------------------------
\* Repacketizer: the native side.

Max(a, b) == IF a >= b THEN a ELSE b
Remove(seq, i) == SubSeq(seq, 1, i - 1) \o SubSeq(seq, i + 1, Len(seq))

\* Samples per frame at 8 kHz for a configuration, and the most a packet
\* may span (120 ms).
Framesize(cfg) ==
    CASE cfg = "c60" -> 480 [] cfg = "c40" -> 320 [] cfg = "c2" -> 20 [] OTHER -> 0
MaxPacketSamples == 960

RECURSIVE SumSeq(_)
SumSeq(ns) == IF ns = <<>> THEN 0 ELSE Head(ns) + SumSeq(Tail(ns))

RECURSIVE SumSizes(_)
SumSizes(frames) ==
    IF frames = <<>> THEN 0 ELSE Head(frames).sz + SumSizes(Tail(frames))

\* Bytes of the packet that carries `frames`: the TOC byte, a count byte
\* from three frames on, and one size byte per frame but the last when the
\* sizes differ.
PacketSize(frames) ==
    LET n == Len(frames)
        equal == \A i \in 1 .. n : frames[i].sz = frames[1].sz
    IN  CASE n = 0 -> 0
          [] n = 1 -> 1 + SumSizes(frames)
          [] n = 2 -> (IF equal THEN 1 ELSE 2) + SumSizes(frames)
          [] OTHER -> (IF equal THEN 2 ELSE 2 + (n - 1)) + SumSizes(frames)

\* The bytes of a packet.  A byte is the TOC byte (configuration and frame
\* count code 0..3), the count byte of a code 3 packet (frame count, and
\* whether sizes follow), a size byte, or a byte of a frame's payload.
Byte(k, str, n) == [k |-> k, s |-> str, n |-> n]
FrameBytes(f) == [i \in 1 .. f.sz |-> Byte("data", f.d, 0)]

RECURSIVE Payload(_)
Payload(frames) ==
    IF frames = <<>> THEN <<>>
    ELSE FrameBytes(Head(frames)) \o Payload(Tail(frames))

\* The packet the repacketizer writes for `frames`: code 0 for one frame,
\* code 1 for two of equal size, code 2 (one size byte) for two of different
\* sizes, code 3 from three frames on, with a size byte per frame but the
\* last when the sizes differ; no padding.
Encode(pkt) ==
    LET frames == pkt.frames
        n == Len(frames)
        equal == \A i \in 1 .. n : frames[i].sz = frames[1].sz
        code == CASE n = 1 -> 0
                  [] n = 2 -> (IF equal THEN 1 ELSE 2)
                  [] OTHER -> 3
        header ==
          CASE code = 2 -> <<Byte("size", "", frames[1].sz)>>
            [] code = 3 ->
                 <<Byte("count", IF equal THEN "cbr" ELSE "vbr", n)>> \o
                 (IF equal THEN <<>>
                  ELSE [i \in 1 .. (n - 1) |-> Byte("size", "", frames[i].sz)])
            [] OTHER -> <<>>
    IN  IF n = 0 THEN <<>>
        ELSE <<Byte("toc", pkt.cfg, code)>> \o header \o Payload(frames)

\* The frames of `data` cut at the given sizes.
RECURSIVE Cut(_, _)
Cut(data, sizes) ==
    IF sizes = <<>> THEN <<>>
    ELSE <<[d |-> IF Head(sizes) > 0 THEN data[1].s ELSE "", sz |-> Head(sizes)]>>
         \o Cut(SubSeq(data, Head(sizes) + 1, Len(data)), Tail(sizes))

\* opus_packet_parse as the repacketizer uses it, on the bytes of a packet
\* in one of the four codes above.
Parse(bytes) ==
    IF bytes = <<>> THEN [cfg |-> "", frames |-> <<>>]
    ELSE
    LET toc == bytes[1]
        rest == Tail(bytes)
        count == IF toc.n = 3 THEN rest[1].n ELSE IF toc.n = 0 THEN 1 ELSE 2
        vbr == toc.n = 2 \/ (toc.n = 3 /\ rest[1].s = "vbr")
        sizesAt == IF toc.n = 3 THEN 2 ELSE 1
        nsizes == IF vbr THEN count - 1 ELSE 0
        data == SubSeq(rest, sizesAt + nsizes, Len(rest))
        given == [i \in 1 .. nsizes |-> rest[sizesAt + i - 1].n]
        sizes == IF vbr
                 THEN given \o <<Len(data) - SumSeq(given)>>
                 ELSE [i \in 1 .. count |-> Len(data) \div count]
    IN  [cfg |-> toc.s, frames |-> Cut(data, sizes)]

\* A cat that appends the packet's frames before it finds the total too long.
NativeCat_partial(n, b, pkt) ==
    [code |-> IF pkt.frames = <<>> \/ (n.frames # <<>> /\ n.cfg # pkt.cfg)
                 \/ (Len(pkt.frames) + Len(n.frames)) * Framesize(pkt.cfg)
                      > MaxPacketSamples
              THEN OPUS_INVALID_PACKET
              ELSE OPUS_OK,
     nat |-> [cfg |-> IF n.frames = <<>> THEN pkt.cfg ELSE n.cfg,
              frames |-> n.frames \o
                         [i \in 1 .. Len(pkt.frames) |->
                            [buf |-> b, idx |-> i, sz |-> pkt.frames[i].sz]]]]

\* opus_repacketizer_cat: the frames of the packet in buffer b are appended
\* as pointers into b; an empty packet, a configuration other than the
\* accumulated one, or more than 120 ms in all answer OPUS_INVALID_PACKET
\* and append nothing.
NativeCat(n, b, pkt) ==
    LET cfg == IF n.frames = <<>> THEN pkt.cfg ELSE n.cfg IN
    IF pkt.frames = <<>>
    THEN [code |-> OPUS_INVALID_PACKET, nat |-> n]
    ELSE IF n.frames # <<>> /\ n.cfg # pkt.cfg
    THEN [code |-> OPUS_INVALID_PACKET, nat |-> n]
    ELSE IF (Len(pkt.frames) + Len(n.frames)) * Framesize(cfg) > MaxPacketSamples
    THEN [code |-> OPUS_INVALID_PACKET, nat |-> [n EXCEPT !.cfg = cfg]]
    ELSE [code |-> OPUS_OK,
          nat |-> [cfg |-> cfg,
                   frames |-> n.frames \o
                              [i \in 1 .. Len(pkt.frames) |->
                                 [buf |-> b, idx |-> i, sz |-> pkt.frames[i].sz]]]]

\* The buffers whose packets the native state has accumulated, in order.
RECURSIVE InputsOf(_)
InputsOf(frames) ==
    IF frames = <<>> THEN <<>>
    ELSE (IF Head(frames).idx = 1 THEN <<Head(frames).buf>> ELSE <<>>)
         \o InputsOf(Tail(frames))

\* The bytes behind an accumulated frame pointer.  A pointer into a buffer
\* that has been released or rewritten reads whatever is there: `g`.
ReadFrame(e, g) ==
    IF bufs[e.buf].live /\ e.idx \in DOMAIN bufs[e.buf].pkt.frames
    THEN bufs[e.buf].pkt.frames[e.idx]
    ELSE [d |-> g, sz |-> e.sz]

NoPacket == [cfg |-> "", frames |-> <<>>]

\* An out_range that starts at the first accumulated frame whatever `begin`.
NativeOutRange_from_first(n, begin, end, maxlen, g) ==
    IF begin < 0 \/ begin >= end \/ end > Len(n.frames)
    THEN [code |-> OPUS_BAD_ARG, packet |-> NoPacket]
    ELSE LET fr == SubSeq(n.frames, 1, end) IN
         IF PacketSize(fr) > maxlen
         THEN [code |-> OPUS_BUFFER_TOO_SMALL, packet |-> NoPacket]
         ELSE [code |-> PacketSize(fr),
               packet |-> [cfg |-> n.cfg,
                           frames |-> [i \in 1 .. Len(fr) |-> ReadFrame(fr[i], g)]]]

\* opus_repacketizer_out_range: OPUS_BAD_ARG for an empty or out-of-bounds
\* range, OPUS_BUFFER_TOO_SMALL when the packet does not fit in maxlen, the
\* packet's length otherwise.
NativeOutRange(n, begin, end, maxlen, g) ==
    IF begin < 0 \/ begin >= end \/ end > Len(n.frames)
    THEN [code |-> OPUS_BAD_ARG, packet |-> NoPacket]
    ELSE LET fr == SubSeq(n.frames, begin + 1, end) IN
         IF PacketSize(fr) > maxlen
         THEN [code |-> OPUS_BUFFER_TOO_SMALL, packet |-> NoPacket]
         ELSE [code |-> PacketSize(fr),
               packet |-> [cfg |-> n.cfg,
                           frames |-> [i \in 1 .. Len(fr) |-> ReadFrame(fr[i], g)]]]

\* An out that emits the first accumulated frame only.
NativeOut_first_frame(n, maxlen, g) == NativeOutRange(n, 0, 1, maxlen, g)

\* opus_repacketizer_out is out_range over every accumulated frame.
NativeOut(n, maxlen, g) == NativeOutRange(n, 0, Len(n.frames), maxlen, g)

\* The length in bytes of the slice a buffer holds.
PacketLen(pkt) == PacketSize(pkt.frames)

\* ------------------------------------------------------------------------
\* Repacketizer and RepacketizerState.
\*
\* The signatures' lifetimes are part of the code: `begin(&'rp mut self)`
\* borrows the Repacketizer exclusively for 'rp, `cat(&mut self, packet:
\* &'buf [u8])` borrows the packet's buffer for 'buf, and a value is usable
\* only inside the lifetimes in its type.  A lifetime is modelled by the
\* time it ends at; a borrow taken now lasts from `clock` to that time.

\* A call that takes `&mut self` on the Repacketizer compiles where no
\* earlier borrow of it is still alive.
\* `&self` in place of `&mut self`: any number of borrows at once.
Repacketizer_shared == TRUE

RpExclusive == clock > rpUntil

\* A caller may write to or release a buffer where no borrow of it is alive.
BufferUnborrowed(b) == bufs[b].until < clock

\* begin without the native reset.
begin_without_init(n) == n

\* Repacketizer::begin: `unsafe { ffi::opus_repacketizer_init(self.ptr) }`
begin_native(n) == NativeInit

\* 'b2 unconstrained: the new session may claim any lifetime.
cat_move_any_lifetime(buf) == clock .. MaxTime

\* cat_move<'b2> where 'buf: 'b2: the lifetimes the returned session may
\* have, none longer than the consumed session's 'buf.
cat_move_lifetimes(buf) == clock .. buf

\* Repacketizer::begin<'rp, 'buf>(&'rp mut self) -> RepacketizerState<'rp, 'buf>
Repacketizer_begin(rp, buf) ==
    /\ RpExclusive
    /\ nat' = begin_native(nat)
    /\ rpUntil' = rp
    /\ sessions' = Append(sessions, [rp |-> rp, buf |-> buf, held |-> {}, cats |-> <<>>])
    /\ lastOp' = Op("Repacketizer::begin", TV("had", Len(nat.frames)), Len(sessions),
                    <<Call("opus_repacketizer_init", 0)>>, Ok(Unit), NoPrev)
    /\ UNCHANGED <<lifeVars, ctlVars, clock, bufs>>

\* The session after cat has been called on it with buffer b: the buffer is
\* held, and its frames count as accumulated when the call returned Ok.
AfterCat(s, b, code) ==
    [s EXCEPT !.held = @ \cup {[b |-> b, pkt |-> bufs[b].pkt]},
              !.cats = IF code < 0 THEN @ ELSE @ \o bufs[b].pkt.frames]

\* RepacketizerState::cat(&mut self, packet: &'buf [u8])
RepacketizerState_cat(i, b) ==
    /\ i \in DOMAIN sessions
    /\ bufs[b].live
    /\ LET s == sessions[i]
           r == NativeCat(nat, b, bufs[b].pkt)
       IN  /\ bufs' = [bufs EXCEPT ![b].until = Max(@, s.buf)]
           /\ nat' = r.nat
           /\ sessions' = [sessions EXCEPT ![i] = AfterCat(s, b, r.code)]
           /\ lastOp' = [Op("RepacketizerState::cat", TV("buf", b), 0,
                            <<Call("opus_repacketizer_cat", r.code)>>,
                            ffi("opus_repacketizer_cat", r.code, Ok(Unit)),
                            NoPrev)
                         EXCEPT !.lens = <<len(USize(0, PacketLen(bufs[b].pkt))).val>>]
    /\ UNCHANGED <<lifeVars, ctlVars, clock, rpUntil>>

\* RepacketizerState::cat_move<'b2>(self, packet: &'b2 [u8])
\*     -> Result<RepacketizerState<'rp, 'b2>> where 'buf: 'b2
\* `self` is consumed; on Err the session is dropped with the `?`.
RepacketizerState_cat_move(i, b, b2) ==
    /\ i \in DOMAIN sessions
    /\ bufs[b].live
    /\ b2 \in cat_move_lifetimes(sessions[i].buf)
    /\ LET shorter == [sessions[i] EXCEPT !.buf = b2]
           r == NativeCat(nat, b, bufs[b].pkt)
           res == ffi("opus_repacketizer_cat", r.code, Ok(Unit))
       IN  /\ bufs' = [bufs EXCEPT ![b].until = Max(@, b2)]
           /\ nat' = r.nat
           /\ sessions' = IF res.tag = "Err"
                          THEN Remove(sessions, i)
                          ELSE [sessions EXCEPT ![i] = AfterCat(shorter, b, r.code)]
           /\ lastOp' = [Op("RepacketizerState::cat_move", TV("buf", b), sessions[i].buf,
                            <<Call("opus_repacketizer_cat", r.code)>>, res, NoPrev)
                         EXCEPT !.lens = <<len(USize(0, PacketLen(bufs[b].pkt))).val>>]
    /\ UNCHANGED <<lifeVars, ctlVars, clock, rpUntil>>

\* RepacketizerState::get_nb_frames
RepacketizerState_get_nb_frames(i) ==
    /\ i \in DOMAIN sessions
    /\ lastOp' = Op("RepacketizerState::get_nb_frames", Unit, 0,
                    <<Call("opus_repacketizer_get_nb_frames", Len(nat.frames))>>,
                    Ok(TV("usize", Len(nat.frames))), Summary(lastOp))
    /\ UNCHANGED <<lifeVars, ctlVars, rpVars>>

\* out that hands the accumulated frames over and keeps none.
out_native_cleared(n) == NativeInit

\* opus_repacketizer_out and opus_repacketizer_out_range read the
\* accumulated frames and leave the native state as it is.
out_native(n) == n

\* RepacketizerState::out
RepacketizerState_out(i, maxlen, g) ==
    /\ i \in DOMAIN sessions
    /\ LET r == NativeOut(nat, len(USize(0, maxlen)).val, g) IN
       lastOp' = [Op("RepacketizerState::out", TV("maxlen", maxlen), 0,
                     <<Call("opus_repacketizer_out", r.code)>>,
                     ffi("opus_repacketizer_out", r.code, Ok(TV("usize", r.code))),
                     Summary(lastOp))
                  EXCEPT !.lens = <<maxlen>>, !.emitted = r.packet]
    /\ nat' = out_native(nat)
    /\ UNCHANGED <<lifeVars, ctlVars, clock, bufs, rpUntil, sessions>>

\* RepacketizerState::out_range
RepacketizerState_out_range(i, begin, end, maxlen, g) ==
    /\ i \in DOMAIN sessions
    /\ LET r == NativeOutRange(nat, check_len(USize(0, begin)).val,
                               check_len(USize(0, end)).val,
                               len(USize(0, maxlen)).val, g)
       IN  lastOp' = [Op("RepacketizerState::out_range", TV("maxlen", maxlen), 0,
                         <<Call("opus_repacketizer_out_range", r.code)>>,
                         ffi("opus_repacketizer_out_range", r.code,
                             Ok(TV("usize", r.code))),
                         NoPrev)
                      EXCEPT !.lens = <<begin, end, maxlen>>, !.emitted = r.packet]
    /\ nat' = out_native(nat)
    /\ UNCHANGED <<lifeVars, ctlVars, clock, bufs, rpUntil, sessions>>

\* A loop that goes on to the next packet after a cat has failed.
RECURSIVE CombineCats_ignoring_errors(_, _)
CombineCats_ignoring_errors(n, input) ==
    IF input = <<>>
    THEN [nat |-> n, calls |-> <<>>, result |-> Ok(Unit)]
    ELSE LET b == Head(input)
             r == NativeCat(n, b, bufs[b].pkt)
             rest == CombineCats_ignoring_errors(r.nat, Tail(input))
         IN  [nat |-> rest.nat,
              calls |-> <<Call("opus_repacketizer_cat", r.code)>> \o rest.calls,
              result |-> rest.result]

\* The loop of combine: `for &packet in input { state.cat(packet)?; }`
RECURSIVE CombineCats(_, _)
CombineCats(n, input) ==
    IF input = <<>>
    THEN [nat |-> n, calls |-> <<>>, result |-> Ok(Unit)]
    ELSE LET b == Head(input)
             r == NativeCat(n, b, bufs[b].pkt)
             res == ffi("opus_repacketizer_cat", r.code, Ok(Unit))
         IN  IF res.tag = "Err"
             THEN [nat |-> r.nat, calls |-> <<Call("opus_repacketizer_cat", r.code)>>,
                   result |-> res]
             ELSE LET rest == CombineCats(r.nat, Tail(input)) IN
                  [nat |-> rest.nat,
                   calls |-> <<Call("opus_repacketizer_cat", r.code)>> \o rest.calls,
                   result |-> rest.result]

\* The body of combine: `let mut state = self.begin();`, the loop, and
\* `state.out(output)` unless the loop has returned: the native state it
\* leaves, the native calls it made, its result and the packet it wrote.
CombineOutcome(input, maxlen, g) ==
    LET cats == CombineCats(begin_native(nat), input)
        o == NativeOut(cats.nat, len(USize(0, maxlen)).val, g)
        failed == cats.result.tag = "Err"
    IN  [nat |-> cats.nat,
         calls |-> <<Call("opus_repacketizer_init", 0)>> \o cats.calls \o
                     (IF failed THEN <<>>
                      ELSE <<Call("opus_repacketizer_out", o.code)>>),
         result |-> IF failed
                    THEN cats.result
                    ELSE ffi("opus_repacketizer_out", o.code,
                             Ok(TV("usize", o.code))),
         emitted |-> IF failed THEN NoPacket ELSE o.packet]

\* Repacketizer::combine(&mut self, input, output): begin, cat each packet,
\* out.  The session and its borrows end with the call.
Repacketizer_combine(input, maxlen, g) ==
    /\ RpExclusive
    /\ LET c == CombineOutcome(input, maxlen, g) IN
       /\ nat' = c.nat
       /\ lastOp' =
            [Op("Repacketizer::combine", TV("maxlen", maxlen), Len(sessions),
                c.calls, c.result, NoPrev)
             EXCEPT !.emitted = c.emitted, !.sizes = input]
    /\ UNCHANGED <<lifeVars, ctlVars, clock, bufs, rpUntil, sessions>>

\* The session value goes out of use.
drop_session(i) ==
    /\ i \in DOMAIN sessions
    /\ sessions' = Remove(sessions, i)
    /\ lastOp' = NoOp
    /\ UNCHANGED <<lifeVars, ctlVars, clock, bufs, rpUntil, nat>>

\* The caller's code moves on; a value whose lifetime has ended is gone.
Tick ==
    /\ clock < MaxTime
    /\ clock' = clock + 1
    /\ sessions' = SelectSeq(sessions, LAMBDA s : s.rp > clock /\ s.buf > clock)
    /\ lastOp' = NoOp
    /\ UNCHANGED <<lifeVars, ctlVars, bufs, rpUntil, nat>>

\* The caller writes another packet into a buffer it owns.
buffer_write(b, pkt) ==
    /\ bufs[b].live
    /\ BufferUnborrowed(b)
    /\ pkt # bufs[b].pkt
    /\ bufs' = [bufs EXCEPT ![b].pkt = pkt, ![b].origin = ByCaller]
    /\ lastOp' = NoOp
    /\ UNCHANGED <<lifeVars, ctlVars, clock, rpUntil, sessions, nat>>

\* The caller releases a buffer it owns.
buffer_release(b) ==
    /\ bufs[b].live
    /\ BufferUnborrowed(b)
    /\ bufs' = [bufs EXCEPT ![b].live = FALSE]
    /\ lastOp' = NoOp
    /\ UNCHANGED <<lifeVars, ctlVars, clock, rpUntil, sessions, nat>>

\* Output buffer lengths, range indices and combine inputs drawn.
OutLens == {0, 4, 16}
MaxIndex == 3
MaxCombine == 2
CombineInputs ==
    UNION {[1 .. k -> {b \in Bufs : bufs[b].live}] : k \in 0 .. MaxCombine}
Garbage == {"g1", "g2"}

\* What a read through the accumulated pointers may find: the choice only
\* exists where some pointer no longer points at the frame it was taken from.
Dangling ==
    \E i \in DOMAIN nat.frames :
      ~(bufs[nat.frames[i].buf].live
        /\ nat.frames[i].idx \in DOMAIN bufs[nat.frames[i].buf].pkt.frames)
GarbageRead == IF Dangling THEN Garbage ELSE {"g1"}

NextRp ==
    \/ \E rp \in clock .. MaxTime, buf \in clock .. MaxTime : Repacketizer_begin(rp, buf)
    \/ \E i \in DOMAIN sessions, b \in Bufs : RepacketizerState_cat(i, b)
    \/ \E i \in DOMAIN sessions, b \in Bufs, b2 \in 1 .. MaxTime :
         RepacketizerState_cat_move(i, b, b2)
    \/ \E i \in DOMAIN sessions : RepacketizerState_get_nb_frames(i)
    \/ \E i \in DOMAIN sessions, maxlen \in OutLens, g \in GarbageRead :
         RepacketizerState_out(i, maxlen, g)
    \/ \E i \in DOMAIN sessions, begin \in 0 .. MaxIndex, end \in 0 .. MaxIndex,
          maxlen \in OutLens, g \in GarbageRead :
         RepacketizerState_out_range(i, begin, end, maxlen, g)
    \/ \E input \in CombineInputs, maxlen \in OutLens, g \in Garbage :
         Repacketizer_combine(input, maxlen, g)
    \/ \E i \in DOMAIN sessions : drop_session(i)
    \/ Tick
    \/ \E b \in Bufs, pkt \in WritablePackets : buffer_write(b, pkt)
    \/ \E b \in Bufs : buffer_release(b)

InitRp ==
    /\ kind = NoHandle
    /\ param = NoHandle
    /\ stored = 0
    /\ lastOp = NoOp
    /\ InitRpVars

SpecRp == InitRp /\ [][NextRp]_vars

\* ------------------------------------------------------------------------
\* packet::parse.  The native opus_packet_parse reads the TOC byte and the
\* header after it, and answers the frame count, or OPUS_INVALID_PACKET;
\* through its out-parameters it gives the TOC byte, a pointer and a size
\* per frame, and the offset of the first frame.  Padding and two-byte
\* sizes are left out: the packets drawn have neither.
\* ------------------------------------------------------------------------

\* The arrays `frames` and `sizes` of packet::parse.
MaxFrames == 48

\* The longest packet drawn.
MaxParseLen == 4

NullPtr == 0 - 1

\* What opus_packet_parse answers when it rejects the packet: the
\* out-parameters keep what the operation put in them.
ParseRejected(code) ==
    [code |-> code, toc |-> Byte("toc", "", 0), starts |-> <<>>, sizes |-> <<>>,
     payload_offset |-> 0]

\* Frame i starts where frame i-1 ends; the first one starts after the
\* header.
ParseStarts_not_advanced(header, sizes) ==
    [i \in 1 .. Len(sizes) |-> header]

ParseStarts(header, sizes) ==
    [i \in 1 .. Len(sizes) |-> header + SumSeq(SubSeq(sizes, 1, i - 1))]

ParseAccepted(toc, header, sizes) ==
    [code |-> Len(sizes), toc |-> toc, starts |-> ParseStarts(header, sizes),
     sizes |-> sizes, payload_offset |-> header]

opus_packet_parse(bytes, length) ==
    IF length < 0 THEN ParseRejected(OPUS_BAD_ARG)
    ELSE IF length = 0 THEN ParseRejected(OPUS_INVALID_PACKET)
    ELSE
    LET toc == bytes[1]
        code == toc.n % 4
        rem == length - 1
    IN  CASE code = 0 -> ParseAccepted(toc, 1, <<rem>>)
          [] code = 1 ->
               IF rem % 2 # 0 THEN ParseRejected(OPUS_INVALID_PACKET)
               ELSE ParseAccepted(toc, 1, <<rem \div 2, rem \div 2>>)
          [] code = 2 ->
               IF rem < 1 THEN ParseRejected(OPUS_INVALID_PACKET)
               ELSE IF bytes[2].n > rem - 1 THEN ParseRejected(OPUS_INVALID_PACKET)
               ELSE ParseAccepted(toc, 2, <<bytes[2].n, rem - 1 - bytes[2].n>>)
          [] OTHER ->
               IF rem < 1 THEN ParseRejected(OPUS_INVALID_PACKET)
               ELSE
               LET count == bytes[2].n % 64
                   vbr == bytes[2].s = "vbr"
                   left == rem - 1
               IN  IF count <= 0 \/ Framesize(toc.s) * count > MaxPacketSamples
                   THEN ParseRejected(OPUS_INVALID_PACKET)
                   ELSE IF vbr
                   THEN IF left < count - 1 THEN ParseRejected(OPUS_INVALID_PACKET)
                        ELSE
                        LET given == [i \in 1 .. count - 1 |-> bytes[2 + i].n]
                            last == left - (count - 1) - SumSeq(given)
                        IN  IF last < 0 THEN ParseRejected(OPUS_INVALID_PACKET)
                            ELSE ParseAccepted(toc, 2 + count - 1, given \o <<last>>)
                   ELSE IF left % count # 0 THEN ParseRejected(OPUS_INVALID_PACKET)
                        ELSE ParseAccepted(toc, 2,
                                           [i \in 1 .. count |-> left \div count])

\* `sizes[i] as usize`, `payload_offset as usize`: a negative value becomes
\* a value near usize::MAX.
as_usize(n) == IF n < 0 THEN USize(1, 0) ELSE USize(0, n)

\* The two arrays as packet::parse declares them, filled by the native
\* function up to its frame count.
FrameArray(answer) ==
    [i \in 1 .. MaxFrames |->
        IF i <= Len(answer.starts)
        THEN [start |-> answer.starts[i], size |-> answer.sizes[i]]
        ELSE [start |-> NullPtr, size |-> 0]]

\* for i in 0..num_frames { frames_vec.push(from_raw_parts(frames[i],
\* sizes[i] as usize)) }
frames_vec(num_frames, array) ==
    [i \in 1 .. num_frames |->
        [start |-> array[i].start, size |-> as_usize(array[i].size)]]

\* packet::parse.  The operation is recorded with the packet it was given.
packet_parse(packet) ==
    /\ kind = NoHandle
    /\ LET fn == "opus_packet_parse"
           slice == USize(0, Len(packet))
           length == len(slice)
           answer == opus_packet_parse(packet, length.val)
           num_frames == answer.code
       IN  lastOp' =
             IF length.panic
             THEN [Op("packet::parse", packet, 0, <<>>, Panic, NoPrev)
                   EXCEPT !.sizes = <<slice>>]
             ELSE IF num_frames > MaxFrames
             THEN [Op("packet::parse", packet, 0, <<Call(fn, num_frames)>>, Panic, NoPrev)
                   EXCEPT !.sizes = <<slice>>, !.lens = <<length.val>>]
             ELSE [Op("packet::parse", packet, 0, <<Call(fn, num_frames)>>,
                      ffi(fn, num_frames, Ok(TV("Packet", num_frames))), NoPrev)
                   EXCEPT !.sizes = <<slice>>, !.lens = <<length.val>>,
                          !.emitted =
                              IF num_frames < 0 THEN @
                              ELSE [cfg |-> answer.toc.s, toc |-> answer.toc,
                                    frames |-> frames_vec(num_frames, FrameArray(answer)),
                                    payload_offset |-> as_usize(answer.payload_offset)]]
    /\ UNCHANGED <<lifeVars, kind, param, stored, rpVars>>

\* The packets drawn: a TOC byte of a 2.5 ms or a 40 ms configuration with
\* any frame count code, then up to MaxParseLen - 1 bytes that are read as
\* a count byte, a size byte or payload according to where they stand.
ParseTocs == {Byte("toc", cfg, code) : cfg \in {"c2", "c40"}, code \in 0 .. 3}

ParseBytes ==
    {Byte("count", "cbr", 2), Byte("count", "vbr", 2), Byte("count", "cbr", MaxFrames),
     Byte("count", "cbr", MaxFrames + 1), Byte("count", "vbr", 0),
     Byte("size", "", 0), Byte("size", "", 1), Byte("size", "", 3),
     Byte("data", "a", 0)}

ParsePackets ==
    {<<>>} \cup
    UNION {{<<toc>> \o rest : toc \in ParseTocs, rest \in [1 .. n -> ParseBytes]}
           : n \in 0 .. MaxParseLen - 1}

\* packet::parse keeps no state between calls: each behaviour parses one
\* packet.
NextParse ==
    /\ lastOp.op = "none"
    /\ \E packet \in ParsePackets : packet_parse(packet)

SpecParse == InitLen /\ [][NextParse]_vars

\* ------------------------------------------------------------------------
\* Splitting a combined packet and combining the pieces again: the program
\* of the repacketizer test, with the output of one call copied into a
\* buffer and given to the next.

\* Two frames always written as a code 1 packet.
Encode_two_frames_cbr(pkt) ==
    IF Len(pkt.frames) = 2
    THEN <<Byte("toc", pkt.cfg, 1)>> \o Payload(pkt.frames)
    ELSE Encode(pkt)

\* The bytes out, out_range and combine leave in the caller's output buffer.
OutputBytes(pkt) == Encode(pkt)

\* The packet a session holds when it has accumulated one buffer only.
SoleInput ==
    IF Len(InputsOf(nat.frames)) = 1 THEN InputsOf(nat.frames)[1] ELSE 0

\* The buffer the program keeps for the combined packet.
Spare == NumBufs + 1

\* What the bytes just written are, for the buffer they are copied to.
OutputOrigin ==
    CASE lastOp.op = "Repacketizer::combine" ->
           Origin("combined", EmptyPacket, 0, 0)
      [] lastOp.op = "RepacketizerState::out_range" /\ SoleInput = Spare ->
           Origin("piece", bufs[Spare].pkt, lastOp.lens[1], lastOp.lens[2])
      [] OTHER -> Origin("other", EmptyPacket, 0, 0)

\* The caller copies output[..n] of the call that has just returned Ok(n):
\* a combined packet into the spare buffer, a range of the combined packet
\* over one of the packets it was combined from.
buffer_store(b) ==
    /\ lastOp.op \in {"Repacketizer::combine", "RepacketizerState::out_range"}
    /\ lastOp.result.tag = "Ok"
    /\ bufs[b].live
    /\ BufferUnborrowed(b)
    /\ bufs[b].origin = ByCaller
    /\ OutputOrigin.kind = (IF b = Spare THEN "combined" ELSE "piece")
    /\ b # Spare => bufs[Spare].origin.kind = "combined"
    /\ bufs' = [bufs EXCEPT ![b].pkt = Parse(OutputBytes(lastOp.emitted)),
                            ![b].origin = OutputOrigin]
    /\ lastOp' = NoOp
    /\ UNCHANGED <<lifeVars, ctlVars, clock, rpUntil, sessions, nat>>

\* The program has one buffer more than the packets it starts from.
TripBufs == 1 .. Spare
TripInputs ==
    UNION {[1 .. k -> {b \in TripBufs : bufs[b].live}] : k \in 1 .. MaxCombine}

InitTrip ==
    /\ kind = NoHandle
    /\ param = NoHandle
    /\ stored = 0
    /\ lastOp = NoOp
    /\ clock = 1
    /\ bufs = [b \in TripBufs |->
                 Buffer(IF b = 1 THEN PacketA ELSE IF b = 2 THEN PacketB ELSE PacketC)]
    /\ rpUntil = 0
    /\ sessions = <<>>
    /\ nat = NativeInit
    /\ heap = [h \in Handles |-> NoInstance]

\* The test gives every call an output buffer that holds the largest packet,
\* and ends each session before it starts the next.
TripLens == {16}

NextTrip ==
    \/ \E input \in TripInputs, maxlen \in TripLens, g \in GarbageRead :
         Repacketizer_combine(input, maxlen, g)
    \/ Repacketizer_begin(clock, clock)
    \/ \E i \in DOMAIN sessions, b \in TripBufs : RepacketizerState_cat(i, b)
    \/ \E i \in DOMAIN sessions, begin \in 0 .. MaxIndex, end \in 0 .. MaxIndex,
          maxlen \in TripLens, g \in GarbageRead :
         RepacketizerState_out_range(i, begin, end, maxlen, g)
    \/ \E b \in TripBufs : buffer_store(b)
    \/ Tick

SpecTrip == InitTrip /\ [][NextTrip]_vars

\* ------------------------------------------------------------------------
\* Every operation built on ffi! or ctl! that needs no live session.  A
\* program holding a codec handle is followed through its control accessors;
\* the other operations (the packet queries, one call of any operation that
\* passes a length, and combine with its sequence of native calls) are
\* followed in a program that holds none.
NextMacros ==
    \/ NextCtl
    \/ kind = NoHandle /\ NextPkt
    \/ kind = NoHandle /\ NextLen
    \/ /\ kind = NoHandle
       /\ \E input \in CombineInputs, maxlen \in OutLens, g \in Garbage :
            Repacketizer_combine(input, maxlen, g)

InitMacros == InitCtl \/ InitLen

SpecMacros == InitMacros /\ [][NextMacros]_vars

\* ------------------------------------------------------------------------
\* Properties.

\* What the last operation's native calls answered.
NegativeCalls == {i \in DOMAIN lastOp.calls : lastOp.calls[i].code < 0}
Returned == lastOp.op # "none" /\ lastOp.result.tag # "Panic"

\* C1: a Repacketizer never has more than one live session, and begin and
\* combine are only ever invoked when no session on it is live.
C1_OneLiveSession ==
    /\ Len(sessions) <= 1
    /\ lastOp.op \in {"Repacketizer::begin", "Repacketizer::combine"}
         => lastOp.raw = 0

\* C1 witness: a session is live, has ingested a packet, and the exclusive
\* borrow of the Repacketizer is still running.
C1_SessionHoldsRepacketizer ==
    /\ Len(sessions) = 1
    /\ ~RpExclusive
    /\ lastOp.op = "RepacketizerState::cat"
    /\ lastOp.result.tag = "Ok"

\* C2: every buffer a live session has ingested is still alive, still holds
\* the bytes it held when ingested, and is borrowed for at least as long as
\* the session lasts; cat_move never returns a session with a longer buffer
\* lifetime than the one it consumed.
C2_SessionWithinBuffers ==
    /\ \A i \in DOMAIN sessions : \A h \in sessions[i].held :
         /\ bufs[h.b].live
         /\ bufs[h.b].pkt = h.pkt
         /\ bufs[h.b].until >= sessions[i].buf
    /\ (lastOp.op = "RepacketizerState::cat_move" /\ lastOp.result.tag = "Ok")
         => \A i \in DOMAIN sessions : sessions[i].buf <= lastOp.raw

\* C2 witness: cat_move has returned a session with a shorter buffer
\* lifetime, and that session holds the buffer it was given.
C2_CatMoveShortened ==
    /\ lastOp.op = "RepacketizerState::cat_move"
    /\ lastOp.result.tag = "Ok"
    /\ Len(sessions) = 1
    /\ sessions[1].buf < lastOp.raw
    /\ \E h \in sessions[1].held : h.b = lastOp.arg.n

\* C3 (as amended): in every operation built on ffi! or ctl!, a negative
\* native code ends the operation: it is the last call made and the
\* operation returns Err carrying that code's classification.  When every
\* code was non-negative the code counts as success: a setter returns
\* Ok(()) whatever positive value came back, and the only Err an operation
\* can still return is BadArg from the binding's own validation.
C3_NegativeCodeEndsOperation ==
    Returned =>
      /\ \A i \in NegativeCalls :
           /\ i = Len(lastOp.calls)
           /\ lastOp.result.tag = "Err"
           /\ lastOp.result.code = ErrorCode_from_int(lastOp.calls[i].code)
      /\ (NegativeCalls = {} /\ lastOp.op = "set") => lastOp.result = Ok(Unit)
      /\ (NegativeCalls = {} /\ lastOp.result.tag = "Err")
           => lastOp.result.code = "BadArg"

\* C3 witness: combine stopped at a cat that answered a negative code, after
\* an earlier cat had succeeded, and made no call to out.
C3_CombineStoppedAtFailure ==
    /\ lastOp.op = "Repacketizer::combine"
    /\ Len(lastOp.calls) = 3
    /\ lastOp.calls[2].code = OPUS_OK
    /\ lastOp.calls[3] = Call("opus_repacketizer_cat", OPUS_INVALID_PACKET)
    /\ lastOp.result = Err("opus_repacketizer_cat", "InvalidPacket")

\* C3 as stated: an operation returns Err exactly when a native code was
\* negative.
C3_ErrExactlyWhenNegative ==
    Returned => (lastOp.result.tag = "Err" <=> NegativeCalls # {})

\* C4: the six enumeration getters, when the native call succeeds, return
\* Err(BadArg) for a raw integer outside the enumeration's constants, never
\* panic, and never return a variant whose raw encoding is not the integer
\* the native side wrote.
C4Params ==
    {"bandwidth", "max_bandwidth", "application", "signal",
     "expert_frame_duration", "force_channels"}
C4_UnknownRawIsBadArg ==
    (lastOp.op = "get" /\ param \in C4Params /\ NegativeCalls = {}) =>
      /\ lastOp.result.tag # "Panic"
      /\ lastOp.raw \notin KnownRaw(param)
           => (lastOp.result.tag = "Err" /\ lastOp.result.code = "BadArg")
      /\ lastOp.result.tag = "Ok"
           => EncodeParam(param, lastOp.result.val) = lastOp.raw

\* C4 witness: get_application read a raw integer that lies between two
\* Application constants and returned BadArg.
C4_GetApplicationUnknown ==
    /\ lastOp.op = "get"
    /\ param = "application"
    /\ NegativeCalls = {}
    /\ lastOp.raw = OPUS_APPLICATION_AUDIO + 1
    /\ lastOp.result.tag = "Err"
    /\ lastOp.result.code = "BadArg"

\* The get that follows a successful set on the same handle, itself
\* successful at the native level.
GetAfterSet ==
    /\ lastOp.op = "get"
    /\ lastOp.prev.op = "set"
    /\ lastOp.prev.ok
    /\ NegativeCalls = {}

\* The Bitrate values whose raw encoding is a sentinel's.
BitsSentinels == {TV("Bits", OPUS_AUTO), TV("Bits", OPUS_BITRATE_MAX)}

CodecNews == {k \o "::new" : k \in Kinds}

\* C6: a constructor whose native creation returned null with the status
\* left at OPUS_OK fails with AllocFail; with a negative status it fails
\* with that status' classification.
C6_NullIsAllocFail ==
    lastOp.op \in CodecNews =>
      /\ (lastOp.arg.t = "null" /\ lastOp.raw = OPUS_OK)
           => (lastOp.result.tag = "Err" /\ lastOp.result.code = "AllocFail")
      /\ lastOp.raw < 0
           => (lastOp.result.tag = "Err"
               /\ lastOp.result.code = ErrorCode_from_int(lastOp.raw))

\* C7: no length past the native integer's range reaches a native call:
\* the operation has panicked at the guard before calling.
C7_EveryLengthGuarded ==
    (lastOp.op \in DOMAIN LenOps /\ lastOp.sizes # <<>>
       /\ \E i \in DOMAIN lastOp.sizes : lastOp.sizes[i].hi > 0)
      => (lastOp.result.tag = "Panic" /\ lastOp.calls = <<>>)

\* The length arguments of the last operation that go through check_len.
Guarded ==
    {i \in DOMAIN LenOps[lastOp.op].args :
       LenOps[lastOp.op].args[i].conv \in {"len", "check_len"}}

\* C8: where a length goes through check_len, a length above 2^31 - 1
\* panics with no native call made and no Err returned; otherwise the
\* native call receives exactly that length (divided by the channel count
\* where the source divides).
C8_CheckLenExactOrPanic ==
    (lastOp.op \in DOMAIN LenOps /\ lastOp.sizes # <<>>) =>
      IF \E i \in Guarded : lastOp.sizes[i].hi > 0
      THEN lastOp.result.tag = "Panic" /\ lastOp.calls = <<>>
      ELSE /\ lastOp.result.tag # "Panic"
           /\ Len(lastOp.calls) = 1
           /\ \A i \in Guarded :
                lastOp.lens[i] =
                  IF LenOps[lastOp.op].args[i].div
                  THEN lastOp.sizes[i].lo \div lastOp.arg.n
                  ELSE lastOp.sizes[i].lo

\* C8 witness: out_range with `end` = 2^31, one past the largest c_int,
\* and the other two lengths in range, panicked.
C8_OutRangeEndTooLarge ==
    /\ lastOp.op = "RepacketizerState::out_range"
    /\ lastOp.sizes = <<USize(0, INT_MAX), USize(1, 0), USize(0, 960)>>
    /\ lastOp.result.tag = "Panic"

\* C9: each of the five packet queries answers a zero-length packet with
\* Err(BadArg) and makes no native call.
C9_EmptyPacketRejectedBeforeCall ==
    (lastOp.op \in PacketQueries /\ lastOp.arg.n = 0) =>
      /\ lastOp.result.tag = "Err"
      /\ lastOp.result.code = "BadArg"
      /\ lastOp.calls = <<>>

\* The frames a live session has accumulated, read back through the native
\* state's pointers.
NativeFrames == [i \in DOMAIN nat.frames |-> ReadFrame(nat.frames[i], "g1")]

\* C10: begin leaves the native state empty whatever it held; get_nb_frames
\* right after begin is 0; and what a live session holds natively, and so
\* what out emits, is the frames of that session's own successful cats.
C10_BeginResets ==
    /\ lastOp.op = "Repacketizer::begin" => nat = NativeInit
    /\ (lastOp.op = "RepacketizerState::get_nb_frames"
          /\ lastOp.prev.op = "Repacketizer::begin")
         => lastOp.result = Ok(TV("usize", 0))
    /\ \A i \in DOMAIN sessions :
         /\ NativeFrames = sessions[i].cats
         /\ (lastOp.op = "RepacketizerState::out" /\ lastOp.result.tag = "Ok")
              => lastOp.emitted.frames = sessions[i].cats

\* C10 witness: begin was called on a Repacketizer whose native state held
\* frames of an earlier session.
C10_BeginAfterEarlierSession ==
    /\ lastOp.op = "Repacketizer::begin"
    /\ lastOp.arg.n > 0
    /\ nat.frames = <<>>

\* C11: in a live session the native frame count is the number of frames
\* of the packets whose cat returned Ok since begin, get_nb_frames returns
\* that number, and a cat that returned Err has added nothing.
C11_FrameCountIsSum ==
    \A i \in DOMAIN sessions :
      /\ Len(nat.frames) = Len(sessions[i].cats)
      /\ lastOp.op = "RepacketizerState::get_nb_frames"
           => lastOp.result = Ok(TV("usize", Len(sessions[i].cats)))
      /\ (lastOp.op = "RepacketizerState::cat" /\ lastOp.result.tag = "Err")
           => NativeFrames = sessions[i].cats

\* C11 witness: get_nb_frames returned 3 (a one-frame and a two-frame
\* packet) right after a further cat had failed.
C11_ThreeFramesAfterFailedCat ==
    /\ lastOp.op = "RepacketizerState::get_nb_frames"
    /\ lastOp.prev.op = "RepacketizerState::cat"
    /\ ~lastOp.prev.ok
    /\ lastOp.result = Ok(TV("usize", 3))
    /\ Len(sessions) = 1

\* The last operation was `out` on a session that is still there.
OutReturned == lastOp.op = "RepacketizerState::out" /\ Len(sessions) = 1

\* out returned Ok(n) and the n bytes are one packet holding `frames`.
Emitted(frames) ==
    /\ lastOp.result = Ok(TV("usize", PacketSize(frames)))
    /\ lastOp.emitted = [cfg |-> nat.cfg, frames |-> frames]

OutRangeReturned ==
    lastOp.op = "RepacketizerState::out_range" /\ Len(sessions) = 1

CatOps == {"RepacketizerState::cat", "RepacketizerState::cat_move"}

\* C14: out on a session built by cat or by a chain of cat_move returns what
\* combine returns for the same packets and the same buffer length, and
\* writes the same packet; a cat or cat_move that fails returns the error
\* combine returns for the packets up to and including that one; and
\* combine makes no call after the first cat that failed.
C14_ThreeWaysAgree ==
    /\ OutReturned =>
         LET c == CombineOutcome(InputsOf(nat.frames), lastOp.arg.n, "g1") IN
         lastOp.result = c.result /\ lastOp.emitted = c.emitted
    /\ (lastOp.op \in CatOps /\ lastOp.result.tag = "Err") =>
         \A maxlen \in OutLens :
           LET c == CombineOutcome(InputsOf(nat.frames) \o <<lastOp.arg.n>>,
                                   maxlen, "g1")
           IN  /\ c.result = lastOp.result
               /\ c.calls[Len(c.calls)] = lastOp.calls[1]
               /\ c.emitted = NoPacket
    /\ lastOp.op = "Repacketizer::combine" =>
         \A i \in NegativeCalls :
           /\ i = Len(lastOp.calls)
           /\ lastOp.result = Error_from_code(lastOp.calls[i].fn, lastOp.calls[i].code)

\* C14 witness: out after a chain of cat_move returned the 9-byte packet of
\* three frames that combine returns for the same two packets.
C14_CatMoveChainThenOut ==
    /\ OutReturned
    /\ lastOp.prev.op = "RepacketizerState::cat_move"
    /\ Len(InputsOf(nat.frames)) = 2
    /\ lastOp.result = Ok(TV("usize", 9))
    /\ lastOp.result = CombineOutcome(InputsOf(nat.frames), 16, "g1").result

\* The buffers given to the last combine are pieces of one packet P, itself
\* written by combine: sub-ranges of P's frames that follow one another and
\* cover them all.
PiecesOf(P, input) ==
    /\ input # <<>>
    /\ \A k \in DOMAIN input :
         /\ bufs[input[k]].origin.kind = "piece"
         /\ bufs[input[k]].origin.of = P
         /\ bufs[input[k]].origin.begin =
              IF k = 1 THEN 0 ELSE bufs[input[k - 1]].origin.end
    /\ bufs[input[Len(input)]].origin.end = Len(P.frames)
    /\ \E b \in DOMAIN bufs : bufs[b].origin.kind = "combined" /\ bufs[b].pkt = P

\* C15: when the packets given to combine are the pieces of a combined
\* packet P, cut by out_range into sub-ranges that cover P's frames in
\* order, combine writes the bytes of P (given a buffer that holds them).
C15_SplitAndRecombine ==
    lastOp.op = "Repacketizer::combine" =>
      \A b \in DOMAIN bufs :
        LET P == bufs[b].pkt IN
        (PiecesOf(P, lastOp.sizes) /\ Len(Encode(P)) <= lastOp.arg.n) =>
          /\ lastOp.result = Ok(TV("usize", Len(Encode(P))))
          /\ OutputBytes(lastOp.emitted) = Encode(P)

\* C15 witness: the three-frame packet combined from a one-frame and a
\* two-frame packet was cut into two pieces and combined again.
C15_TwoPiecesRecombined ==
    /\ lastOp.op = "Repacketizer::combine"
    /\ Len(lastOp.sizes) = 2
    /\ \E b \in DOMAIN bufs :
         /\ bufs[b].pkt.frames = PacketA.frames \o PacketB.frames
         /\ PiecesOf(bufs[b].pkt, lastOp.sizes)
    /\ lastOp.result = Ok(TV("usize", 9))

Running ==
    UNION {{[h |-> h, k |-> heap[h].kind, op |-> r.op, recv |-> r.recv, t |-> r.t] :
              r \in heap[h].running} : h \in {g \in Handles : heap[g].kind \in Kinds}}

\* C17 as stated: every operation in progress on a codec handle holds the
\* exclusive borrow, and no handle has two operations in progress.
C17_EveryOperationExclusive ==
    /\ \A r \in Running : r.recv = "&mut self"
    /\ \A h \in Handles : Cardinality(heap[h].running) <= 1

\* C17: every operation in progress on a codec handle holds the exclusive
\* borrow, except Decoder::get_nb_samples, which holds a shared one on the
\* thread that holds the decoder; no handle has two operations in progress.
C17_OneOperationAtATime ==
    /\ \A r \in Running :
         \/ r.recv = "&mut self"
         \/ r.k = "Decoder" /\ r.op = "get_nb_samples" /\ r.t = heap[r.h].owner
    /\ \A h \in Handles : Cardinality(heap[h].running) <= 1

\* C17 witness: a decoder moved to the second thread is inside
\* get_nb_samples there while the first thread is inside an operation of
\* another handle.
C17_GetNbSamplesInProgress ==
    \E r \in Running, q \in Running :
      /\ r.op = "get_nb_samples"
      /\ r.t = 2
      /\ q.h # r.h
      /\ q.t = 1

\* The decode calls that gave an empty input slice and returned.
LossCalls ==
    /\ lastOp.op \in {"Decoder::decode", "Decoder::decode_float",
                      "MSDecoder::decode", "MSDecoder::decode_float"}
    /\ lastOp.sizes[1] = USize(0, 0)
    /\ lastOp.result # Panic

\* C18 as stated: with an empty input the native decoder is given a null
\* pointer and length 0, and with fec set the call returns Ok with the
\* number of samples per channel of what was decoded before.
C18_LossNeverFails ==
    LossCalls =>
      /\ lastOp.arg.t = "null"
      /\ lastOp.lens[1] = 0
      /\ (lastOp.arg.n = 1 /\ lastOp.prev.ok) =>
           lastOp.result = Ok(TV("usize", lastOp.prev.arg.n))

\* C18: with an empty input the native decoder is given a null pointer,
\* length 0 and frame_size = output.len() / channels; with fec set the call
\* returns Ok(frame_size) (for MSDecoder at most 120 ms of samples) when
\* that is a positive whole number of 2.5 ms units and Err otherwise.
C18_LossConcealsFrameSize ==
    LossCalls =>
      /\ lastOp.arg.t = "null"
      /\ lastOp.lens[1] = 0
      /\ lastOp.lens[2] = lastOp.sizes[2].lo \div lastOp.raw
      /\ lastOp.arg.n = 1 =>
           LET fs == IF lastOp.op \in {"MSDecoder::decode", "MSDecoder::decode_float"}
                     THEN Min(lastOp.lens[2], MaxDuration)
                     ELSE lastOp.lens[2]
           IN  IF fs > 0 /\ fs % FrameUnit = 0
               THEN lastOp.result = Ok(TV("usize", fs))
               ELSE lastOp.result.tag = "Err"

\* C18 witness: a decoder whose last packet had 960 samples per channel is
\* given an empty input, fec set and room for 5760 samples, and returns
\* 5760.
C18_ConcealedWholeBuffer ==
    /\ LossCalls
    /\ lastOp.op = "Decoder::decode"
    /\ lastOp.arg.n = 1
    /\ lastOp.prev.arg.n = 960
    /\ lastOp.sizes[2] = USize(0, 5760)
    /\ lastOp.raw = 1
    /\ lastOp.result = Ok(TV("usize", 5760))

\* The encode calls that gave an output buffer of no bytes.
EmptyOutputCalls ==
    /\ lastOp.op \in {"Encoder::encode", "Encoder::encode_float"}
    /\ lastOp.sizes[2] = USize(0, 0)

\* C20 as stated: encode and encode_float with a zero-length output buffer
\* return Err with code BadArg, whatever the input and the encoder's state.
C20_EmptyOutputIsBadArg ==
    EmptyOutputCalls =>
      lastOp.result.tag = "Err" /\ lastOp.result.code = "BadArg"

\* C20: encode and encode_float with a zero-length output buffer return Err
\* with code BadArg from the native encoder, whatever the encoder's state
\* and the input, as long as the input's length fits a c_int; a longer
\* input panics in the length guard and the native encoder is not called.
C20_EmptyOutputIsBadArgOrPanic ==
    EmptyOutputCalls =>
      IF lastOp.sizes[1].hi = 0
      THEN /\ lastOp.calls =
                <<Call(IF lastOp.op = "Encoder::encode" THEN "opus_encode"
                       ELSE "opus_encode_float", OPUS_BAD_ARG)>>
           /\ lastOp.lens[2] = 0
           /\ lastOp.result = Err(lastOp.calls[1].fn, "BadArg")
      ELSE lastOp.result = Panic /\ lastOp.calls = <<>>

\* C20 witness: a stereo encoder whose state a control call has changed is
\* given 20 ms of input and an output buffer of no bytes.
C20_StereoFrameEmptyOutput ==
    /\ EmptyOutputCalls
    /\ lastOp.op = "Encoder::encode"
    /\ lastOp.arg = TV("state", 1)
    /\ lastOp.sizes[1] = USize(0, 1920)
    /\ lastOp.raw = 2
    /\ lastOp.result = Err("opus_encode", "BadArg")

\* The handles the program holds.
Held(hp) == {h \in Handles : hp[h].owned}

C21_FromIntTotalAndInverse ==
    /\ lastOp.op = "ErrorCode::from_int" =>
         LET v == lastOp.arg.n
             names == <<"BadArg", "BufferTooSmall", "InternalError", "InvalidPacket",
                        "Unimplemented", "InvalidState", "AllocFail">>
         IN  lastOp.result =
               Ok(TV(IF v \in -7 .. -1 THEN names[-v] ELSE "Unknown", 0))
    /\ lastOp.op = "ErrorCode::from_int(k as i32)" =>
         lastOp.result = Ok(TV(lastOp.arg.t, 0))

\* C21 witness: Unknown, whose discriminant is -8, has gone through
\* `as i32` and from_int and come back as Unknown.
C21_UnknownRoundTrip ==
    /\ lastOp.op = "ErrorCode::from_int(k as i32)"
    /\ lastOp.arg.t = "Unknown"
    /\ lastOp.raw = -8
    /\ lastOp.result = Ok(TV("Unknown", 0))

\* The encode and decode calls that reached the native function.
TransformCalls(names) == lastOp.op \in names /\ lastOp.result # Panic

\* C22: encode and encode_float give the native encoder len(input) divided
\* by the handle's channel count and len(output); decode and decode_float
\* give the native decoder len(input) and len(output) divided by the
\* channel count; a non-negative native answer is the Ok value.
C22_PerChannelLengths ==
    /\ TransformCalls({"Encoder::encode", "Encoder::encode_float",
                       "MSEncoder::encode", "MSEncoder::encode_float"}) =>
         /\ lastOp.raw = param
         /\ \E q \in 0 .. lastOp.sizes[1].lo :
              /\ lastOp.lens = <<q, lastOp.sizes[2].lo>>
              /\ q * param <= lastOp.sizes[1].lo
              /\ lastOp.sizes[1].lo < (q + 1) * param
    /\ TransformCalls({"Decoder::decode", "Decoder::decode_float",
                       "MSDecoder::decode", "MSDecoder::decode_float"}) =>
         /\ lastOp.raw = param
         /\ \E q \in 0 .. lastOp.sizes[2].lo :
              /\ lastOp.lens = <<lastOp.sizes[1].lo, q>>
              /\ q * param <= lastOp.sizes[2].lo
              /\ lastOp.sizes[2].lo < (q + 1) * param
    /\ TransformCalls({"Encoder::encode", "Encoder::encode_float",
                       "MSEncoder::encode", "MSEncoder::encode_float",
                       "Decoder::decode", "Decoder::decode_float",
                       "MSDecoder::decode", "MSDecoder::decode_float"}) =>
         /\ Len(lastOp.calls) = 1
         /\ lastOp.calls[1].code >= 0 =>
              lastOp.result = Ok(TV("usize", lastOp.calls[1].code))

\* C22 witness: a multistream encoder of three channels is given 2881
\* samples and room for 240 bytes: the native encoder is given a frame of
\* 960 samples per channel and its answer, 200, is returned.
C22_ThreeChannelFrame ==
    /\ lastOp.op = "MSEncoder::encode_float"
    /\ param = 3
    /\ lastOp.sizes = <<USize(0, 2881), USize(0, 240)>>
    /\ lastOp.lens = <<960, 240>>
    /\ lastOp.calls = <<Call("opus_multistream_encode_float", 200)>>
    /\ lastOp.result = Ok(TV("usize", 200))


\* The frames of the Packet the last packet::parse returned, with the length
\* of the packet it was given.
ParsedOk == lastOp.op = "packet::parse" /\ lastOp.result.tag = "Ok"

FramesWithin(frames, length) ==
    \A i \in 1 .. Len(frames) :
        /\ frames[i].start >= 0
        /\ frames[i].size.hi = 0
        /\ frames[i].start + frames[i].size.lo <= length

\* C23 (as amended): every Packet that packet::parse returns Ok has at most
\* 48 frames, every frame lies entirely within the packet given, every
\* frame starts at or after the end of the frame before it (so the frames
\* do not overlap and their start offsets never decrease), and
\* payload_offset is at most the packet's length.
C23_FramesInStreamOrder ==
    ParsedOk =>
        LET frames == lastOp.emitted.frames
            length == lastOp.sizes[1].lo
            offset == lastOp.emitted.payload_offset
        IN  /\ Len(frames) <= 48
            /\ FramesWithin(frames, length)
            /\ \A i \in 1 .. Len(frames) - 1 :
                   frames[i + 1].start >= frames[i].start + frames[i].size.lo
            /\ offset.hi = 0 /\ offset.lo <= length

\* C23 as stated: the same, with start offsets that strictly increase from
\* one frame to the next.
C23_StartOffsetsIncrease ==
    ParsedOk =>
        LET frames == lastOp.emitted.frames
            length == lastOp.sizes[1].lo
            offset == lastOp.emitted.payload_offset
        IN  /\ Len(frames) <= 48
            /\ FramesWithin(frames, length)
            /\ \A i \in 1 .. Len(frames) - 1 :
                   /\ frames[i + 1].start >= frames[i].start + frames[i].size.lo
                   /\ frames[i + 1].start > frames[i].start
            /\ offset.hi = 0 /\ offset.lo <= length

\* A packet of a TOC byte alone, with frame count code 1, parsed: two empty
\* frames that both start at the end of the packet.
C23_TwoEmptyFrames ==
    /\ ParsedOk
    /\ lastOp.sizes[1].lo = 1
    /\ Len(lastOp.emitted.frames) = 2
    /\ \A i \in 1 .. 2 :
          lastOp.emitted.frames[i].start = 1 /\ lastOp.emitted.frames[i].size.lo = 0


\* A step that is a call of out or out_range.
OutStep ==
    /\ lastOp' # lastOp
    /\ lastOp'.op \in {"RepacketizerState::out", "RepacketizerState::out_range"}

\* C24: a call of out or out_range, successful or failed, leaves the
\* accumulated frames (what get_nb_frames counts) and every session as
\* they were, so the session it was called on is still there for further
\* cat, out and out_range calls; and the accumulated frames only become
\* fewer in a step that calls begin (opus_repacketizer_init).
C24_OutKeepsTheSession ==
    [][/\ OutStep => nat'.frames = nat.frames /\ sessions' = sessions
       /\ Len(nat'.frames) < Len(nat.frames) =>
              /\ lastOp'.op \in {"Repacketizer::begin", "Repacketizer::combine"}
              /\ lastOp'.calls[1].fn = "opus_repacketizer_init"]_vars

\* get_nb_frames answers 2 right after an out that failed, on a session
\* that is still open.
C24_TwoFramesAfterFailedOut ==
    /\ lastOp.op = "RepacketizerState::get_nb_frames"
    /\ lastOp.prev.op = "RepacketizerState::out"
    /\ ~lastOp.prev.ok
    /\ lastOp.result.val.n = 2
    /\ sessions # <<>>


\* C25: Bitrate::from_raw returns Ok for every integer; from_raw(b.raw())
\* is Ok(b) exactly for the Bitrate values b other than Bits(OPUS_AUTO) and
\* Bits(OPUS_BITRATE_MAX); those two encode to the integers of Auto and Max
\* and decode as Auto and Max.
C25_BitrateRoundTrip ==
    /\ lastOp.op = "Bitrate::from_raw" => lastOp.result.tag = "Ok"
    /\ lastOp.op = "Bitrate::from_raw(b.raw())" =>
          /\ lastOp.result.tag = "Ok"
          /\ lastOp.result = Ok(lastOp.arg) <=> lastOp.arg \notin BitsSentinels
          /\ lastOp.arg \in {TV("Bits", -1000), TV("Auto", 0)} =>
                lastOp.raw = -1000 /\ lastOp.result = Ok(TV("Auto", 0))
          /\ lastOp.arg \in {TV("Bits", -1), TV("Max", 0)} =>
                lastOp.raw = -1 /\ lastOp.result = Ok(TV("Max", 0))

\* Bits(-1000) encoded and decoded: it comes back as Auto.
C25_BitsAutoComesBackAuto ==
    /\ lastOp.op = "Bitrate::from_raw(b.raw())"
    /\ lastOp.arg = TV("Bits", OPUS_AUTO)
    /\ lastOp.raw = OPUS_AUTO
    /\ lastOp.result = Ok(TV("Auto", 0))

====
